---- MODULE Spec2Model ----
(***************************************************************************)
(* StateOS kernel core: ready list, delayed/timer list, per-object waiters *)
(* lists, the wait / wake-one / wake-all protocol, effective priorities    *)
(* and the scheduler pass of kernel/oskernel.c, and the message buffer of  *)
(* kernel/src/osmessagebuffer.c.  The intrusive circular lists are         *)
(* sequences: the ready list is read from the task after IDLE up to IDLE,  *)
(* the delayed list from the entry after WAIT up to WAIT, and a waiters    *)
(* list from obj.queue along tsk.obj.queue.                                *)
(***************************************************************************)
EXTENDS Integers, Sequences, FiniteSets, TLC

(* ------------------------------------------------------------------------ *)
(* Bounds of the model                                                      *)
(* ------------------------------------------------------------------------ *)

\* width in bits of the tick counter (cnt_t); all time arithmetic is mod 2^CntBits
CntBits == 2

\* longest "short" delay a task passes to a wait (in ticks)
MaxDelay == 1

\* number of ticks the timer interrupt may be late (interrupts masked, or a
\* cooperative task that has not yielded yet)
MaxLate == 1

\* size in bytes of the data area of the message buffer (msg.limit)
MaxLimit == 6

\* length in bytes of the longest message a task sends or asks for
MaxSize == 1
RingLimit == 11                       \* size of the data area that holds two messages
RingSize == 2                         \* longest message sent to it
HeapSize == 64                        \* OS_HEAP_SIZE: bytes of the kernel heap
MaxAlloc == 9                         \* largest request made to core_sys_alloc directly
HwTimerBits == 2                      \* HW_TIMER_SIZE: width of the hardware timer
MaxTurns == 2                         \* overflows of the hardware timer that are followed

(* ------------------------------------------------------------------------ *)
(* Names                                                                    *)
(* ------------------------------------------------------------------------ *)

NULL == "null"

IDLE == "IDLE"     \* idle task, root of the ready list
WAIT == "WAIT"     \* root of the delayed/timer list
MAIN == "MAIN"     \* main task

Tasks   == {MAIN, "T1", "T2"}
UserTasks == Tasks \ {MAIN}
Timers  == {"TMR"}
Mutexes == {"M1", "M2"}
Sems    == {"S"}                      \* plain objects: a waiters queue only
Bufs    == {"B"}                      \* message buffers
Objs    == Sems \cup Mutexes \cup Timers \cup Bufs  \* everything a task can wait on

ID_STOPPED == "ID_STOPPED"
ID_READY   == "ID_READY"
ID_DELAYED == "ID_DELAYED"
ID_TIMER   == "ID_TIMER"
ID_IDLE    == "ID_IDLE"

E_SUCCESS == "E_SUCCESS"
E_STOPPED == "E_STOPPED"
E_TIMEOUT == "E_TIMEOUT"

Mod       == 2 ^ CntBits
IMMEDIATE == 0
INFINITE  == Mod - 1                  \* ~0U

\* unsigned arithmetic of width CntBits
U(x) == x % Mod

OS_MAIN_PRIO == 0
Prios == {1, 3}                       \* priorities of the user tasks

SizeofUnsigned == 4                   \* sizeof(unsigned): the length prefix of a message
AlignSize == 8                        \* sizeof(uint64_t): the unit the heap is cleared in
SizeofMsg == 32                       \* ABOVE(sizeof(msg_t)): a multiple of the alignment
Bytes == {1}                          \* the bytes messages are made of

VARIABLES
    id,       \* obj.id of every task and timer
    ready,    \* the ready list: IDLE.obj.next ... up to IDLE
    delayed,  \* the delayed list: WAIT.obj.next ... up to WAIT
    waiters,  \* obj.queue, tsk.obj.queue ...: the waiters list of every object
    guard,    \* tsk.guard
    prio,     \* tsk.prio (effective priority)
    basic,    \* tsk.basic
    start,    \* tsk.start / tmr.start
    delay,    \* tsk.delay / tmr.delay
    period,   \* tmr.period
    event,    \* tsk.event
    held,     \* tsk.list, mtx.list ...: the mutexes a task owns, last locked first
    owner,    \* mtx.owner
    pending,  \* a context switch has been requested (PendSV pending)
    msg,      \* msg.count, msg.head, msg.tail, msg.limit, msg.data of every message buffer
    tmp,      \* tsk.tmp.msg.size, the buffer tsk.tmp.msg.data points to, and the
              \* local `size` of the task's suspended message-buffer call
    fault,    \* an assert of the kernel has failed: the program has stopped
    cur,      \* System.cur
    Counter,  \* the tick counter
    robin,    \* build option OS_ROBIN /= 0 (preemptive) or = 0 (cooperative)
    inwait,   \* the tasks that are inside priv_tsk_wait (suspended or not yet resumed)
    ret,      \* the task and value of the kernel call that returned in the last step
    call,     \* history: the send or receive made in the last kernel step, with its arguments
    heap,     \* core_sys_alloc: the address of the first free byte of the kernel heap
    port,     \* tickless time base: System.cnt, WTIMER0, and the calls of port_sys_time
    fired,    \* history: number of calls of each timer's callback in the last kernel step
    wakes,    \* history: number of core_tsk_wakeup calls on the task since its last suspension
    woken,    \* history: the tasks woken in the last step, in the order of the core_tsk_wakeup calls
    arrive,   \* history: the waiting tasks in the order their waits began
    placed,   \* history: the waiting tasks in the order of their last core_tsk_append
    wrapped   \* history: the counter arithmetic on an entry of the delayed list has overflowed

kvars == <<id, ready, delayed, waiters, guard, prio, start, delay, period, event,
           held, owner, pending, msg, tmp, fault, call, heap, port, fired, wakes,
           woken, arrive, placed>>
vars  == <<id, ready, delayed, waiters, guard, prio, basic, start, delay, period,
           event, held, owner, pending, msg, tmp, fault, cur, Counter, robin, inwait,
           ret, call, heap, port, fired, wakes, woken, arrive, placed, wrapped>>

\* the time base after port_sys_init: System.cnt (in turns of the hardware
\* timer), the value -WTIMER0->TAV and the overflow flag TATOMIS of WTIMER0->MIS;
\* hpc is the position of WTIMER0A_Handler and rpc that of the running call of
\* port_sys_time, made in context ctx, with its locals cnt and tck; read and
\* prev are the last two values port_sys_time has returned, and open tells
\* that a call was made outside a critical section or from an interrupt
PortReset ==
    [cnt |-> 0, tav |-> 0, mis |-> FALSE, hpc |-> "idle",
     rpc |-> "idle", ctx |-> "none", rcnt |-> 0, rtck |-> 0,
     read |-> 0, prev |-> 0, open |-> FALSE]

\* the kernel data as one value, so that the calls of a handler compose;
\* size, len and data are the locals of a message-buffer call: the length read
\* from a prefix, the value the call returns and the bytes written to the
\* caller's buffer
K == [id |-> id, ready |-> ready, delayed |-> delayed, waiters |-> waiters,
      guard |-> guard, prio |-> prio, start |-> start, delay |-> delay,
      period |-> period, event |-> event, held |-> held, owner |-> owner,
      pending |-> pending, msg |-> msg, tmp |-> tmp, fault |-> fault,
      fired |-> [t \in Timers |-> 0], wakes |-> wakes, woken |-> << >>,
      over |-> FALSE, heap |-> heap, port |-> port, base |-> 0, call |-> [name |-> "none", data |-> << >>, size |-> 0], size |-> 0, len |-> 0, data |-> << >>]

Without(seq, x) == SelectSeq(seq, LAMBDA y : y # x)

InsertAt(seq, i, x) == SubSeq(seq, 1, i - 1) \o <<x>> \o SubSeq(seq, i, Len(seq))

Range(seq) == {seq[i] : i \in 1 .. Len(seq)}

\* F applied to the value of v: the result of one call handed to the next
Bind(v, F(_)) == CHOOSE r \in {F(x) : x \in {v}} : TRUE

\* the difference priv_tmr_insert compares with the delay of an entry e that
\* is in the list does not fit the counter: tmr->start + tmr->delay - e->start,
\* which is (Counter - e.start) - (Counter - tmr.start) + tmr.delay
Overflows(s, tmr) ==
    \E e \in Range(s.delayed) \ {tmr} :
        /\ s.delay[e] # INFINITE
        /\ U(Counter + Mod - s.start[e]) - U(Counter + Mod - s.start[tmr]) + s.delay[tmr]
              \notin 0 .. Mod - 1

\* a handler's result becomes the next state; the arrival history keeps the
\* tasks that are still suspended and gains the task that suspended in this
\* step; an overflow at an insertion (over) is remembered while the list has
\* an entry with a deadline;
\* the placement history also moves to its end the waiting task that
\* core_tsk_prio has appended again (after the task suspended in this step:
\* a lock appends its caller before it re-evaluates the owner)
Commit(s) ==
    /\ id' = s.id /\ ready' = s.ready /\ delayed' = s.delayed /\ waiters' = s.waiters
    /\ guard' = s.guard /\ prio' = s.prio /\ start' = s.start
    /\ delay' = s.delay /\ period' = s.period /\ event' = s.event
    /\ held' = s.held /\ owner' = s.owner /\ pending' = s.pending
    /\ msg' = s.msg /\ tmp' = s.tmp /\ fault' = s.fault
    /\ call' = s.call /\ heap' = s.heap /\ port' = s.port
    /\ fired' = s.fired /\ wakes' = s.wakes /\ woken' = s.woken
    /\ LET new == IF cur \in Tasks /\ id[cur] # ID_DELAYED /\ s.id[cur] = ID_DELAYED
                  THEN <<cur>> ELSE << >>
       IN  /\ wrapped' = /\ \E e \in Range(s.delayed) : s.delay[e] # INFINITE
                         /\ (wrapped \/ s.over)
           /\ arrive' = SelectSeq(arrive, LAMBDA t : s.id[t] = ID_DELAYED) \o new
           /\ placed' = SelectSeq(placed, LAMBDA t : s.id[t] = ID_DELAYED /\ s.prio[t] = prio[t])
                         \o new
                         \o SelectSeq(placed, LAMBDA t : s.id[t] = ID_DELAYED /\ s.prio[t] # prio[t])

(* ------------------------------------------------------------------------ *)
(* Ready list                                                               *)
(* ------------------------------------------------------------------------ *)

\* priv_rdy_insert(obj, id, nxt) links obj in front of nxt, the entry at
\* position i of the list (position Len + 1 is the root of the list)
priv_rdy_insert(lst, obj, i) == InsertAt(lst, i, obj)

\* priv_rdy_remove(obj) unlinks obj from the list it is in
priv_rdy_remove(s, obj) ==
    [s EXCEPT !.ready = Without(@, obj), !.delayed = Without(@, obj),
              !.id[obj] = ID_STOPPED]

\* do nxt = nxt->obj.next; while (tsk->prio <= nxt->prio);
\* IDLE, at position Len + 1, has priority 0
\* the walk that stops at the first neighbour of equal priority
RECURSIVE tsk_insert_walk_strict(_, _, _)
tsk_insert_walk_strict(s, tsk, i) ==
    IF i <= Len(s.ready) /\ s.prio[tsk] < s.prio[s.ready[i]]
    THEN tsk_insert_walk_strict(s, tsk, i + 1)
    ELSE i

RECURSIVE tsk_insert_walk(_, _, _)
tsk_insert_walk(s, tsk, i) ==
    IF i <= Len(s.ready) /\ s.prio[tsk] <= s.prio[s.ready[i]]
    THEN tsk_insert_walk(s, tsk, i + 1)
    ELSE i

\* priv_tsk_insert that splices the task in right after IDLE
priv_tsk_insert_head(s, tsk) ==
    [s EXCEPT !.ready = priv_rdy_insert(@, tsk, 1), !.id[tsk] = ID_READY]

priv_tsk_insert(s, tsk) ==
    LET nxt == IF s.prio[tsk] # 0 THEN tsk_insert_walk(s, tsk, 1) ELSE Len(s.ready) + 1
    IN  [s EXCEPT !.ready = priv_rdy_insert(@, tsk, nxt), !.id[tsk] = ID_READY]

port_ctx_switch(s) == [s EXCEPT !.pending = TRUE]

core_ctx_reset(s) == [s EXCEPT !.pending = FALSE]

\* priority of the task after IDLE (IDLE itself when the list is empty)
HeadPrio(s) == IF s.ready = << >> THEN 0 ELSE s.prio[s.ready[1]]

\* core_tsk_insert that never asks for a context switch
core_tsk_insert_noswitch(s, tsk) == priv_tsk_insert(s, tsk)

core_tsk_insert(s, tsk) ==
    Bind(priv_tsk_insert(s, tsk),
         LAMBDA s1 : IF robin /\ HeadPrio(s1) > s1.prio[cur]
                     THEN port_ctx_switch(s1)
                     ELSE s1)

core_tsk_remove(s, tsk) == priv_rdy_remove(s, tsk)

(* ------------------------------------------------------------------------ *)
(* Waiters lists                                                            *)
(* ------------------------------------------------------------------------ *)

\* the walk with "<" for "<=": a newcomer passes only the waiters of strictly
\* higher priority and is queued in front of its equals
RECURSIVE tsk_append_walk_lifo(_, _, _, _)
tsk_append_walk_lifo(s, tsk, obj, i) ==
    IF i <= Len(s.waiters[obj]) /\ s.prio[tsk] < s.prio[s.waiters[obj][i]]
    THEN tsk_append_walk_lifo(s, tsk, obj, i + 1)
    ELSE i

\* do prv = nxt, nxt = nxt->obj.queue; while (nxt && tsk->prio <= nxt->prio);
RECURSIVE tsk_append_walk(_, _, _, _)
tsk_append_walk(s, tsk, obj, i) ==
    IF i <= Len(s.waiters[obj]) /\ s.prio[tsk] <= s.prio[s.waiters[obj][i]]
    THEN tsk_append_walk(s, tsk, obj, i + 1)
    ELSE i

core_tsk_append(s, tsk, obj) ==
    LET s0  == [s EXCEPT !.guard[tsk] = obj]
        nxt == tsk_append_walk(s0, tsk, obj, 1)
    IN  [s0 EXCEPT !.waiters[obj] = InsertAt(@, nxt, tsk)]

\* core_tsk_unlink that does not store the event
core_tsk_unlink_noevent(s, tsk, ev) ==
    [s EXCEPT !.waiters = [o \in DOMAIN @ |-> Without(@[o], tsk)]]

\* core_tsk_unlink that clears the guard
core_tsk_unlink_clear(s, tsk, ev) ==
    [s EXCEPT !.event[tsk] = ev, !.guard[tsk] = NULL,
              !.waiters = [o \in DOMAIN @ |-> Without(@[o], tsk)]]

\* tsk leaves the list it is linked in through tsk->back
core_tsk_unlink(s, tsk, ev) ==
    [s EXCEPT !.event[tsk] = ev,
              !.waiters = [o \in DOMAIN @ |-> Without(@[o], tsk)]]

(* ------------------------------------------------------------------------ *)
(* Delayed / timer list                                                     *)
(* ------------------------------------------------------------------------ *)

\* priv_tmr_insert that puts the entry at the front of the delayed list
priv_tmr_insert_front(s, tmr, nid) ==
    [s EXCEPT !.delayed = priv_rdy_insert(@, tmr, 1), !.id[tmr] = nid]

\* do nxt = nxt->obj.next;
\* while (nxt->delay != INFINITE && nxt->delay <= tmr->start + tmr->delay - nxt->start);
\* WAIT, at position Len + 1, has delay INFINITE
RECURSIVE tmr_insert_walk(_, _, _)
tmr_insert_walk(s, tmr, i) ==
    IF /\ i <= Len(s.delayed)
       /\ s.delay[s.delayed[i]] # INFINITE
       /\ s.delay[s.delayed[i]] <= U(s.start[tmr] + s.delay[tmr] + Mod - s.start[s.delayed[i]])
    THEN tmr_insert_walk(s, tmr, i + 1)
    ELSE i

priv_tmr_insert(s, tmr, nid) ==
    LET nxt == IF s.delay[tmr] # INFINITE THEN tmr_insert_walk(s, tmr, 1)
                                          ELSE Len(s.delayed) + 1
    IN  [s EXCEPT !.delayed = priv_rdy_insert(@, tmr, nxt), !.id[tmr] = nid,
                  !.over = @ \/ (s.delay[tmr] # INFINITE /\ Overflows(s, tmr))]

\* port_tmr_force() reprograms the compare register: no kernel state
core_tmr_insert(s, tmr, nid) == priv_tmr_insert(s, tmr, nid)

core_tmr_remove(s, tmr) == priv_rdy_remove(s, tmr)

(* ------------------------------------------------------------------------ *)
(* Wake-up                                                                  *)
(* ------------------------------------------------------------------------ *)

\* core_tsk_wakeup that leaves the task in the delayed list
core_tsk_wakeup_noremove(s, tsk, ev) ==
    IF tsk # NULL
    THEN Bind(core_tsk_unlink(s, tsk, ev),
              LAMBDA s2 : [core_tsk_insert(s2, tsk) EXCEPT
                              !.wakes[tsk] = IF @ < 2 THEN @ + 1 ELSE @,
                              !.woken = Append(@, tsk)])
    ELSE s

\* core_tsk_wakeup that leaves the task in the waiters list
core_tsk_wakeup_nounlink(s, tsk, ev) ==
    IF tsk # NULL
    THEN Bind(core_tmr_remove([s EXCEPT !.event[tsk] = ev], tsk),
              LAMBDA s2 : [core_tsk_insert(s2, tsk) EXCEPT
                              !.wakes[tsk] = IF @ < 2 THEN @ + 1 ELSE @,
                              !.woken = Append(@, tsk)])
    ELSE s

core_tsk_wakeup(s, tsk, ev) ==
    IF tsk # NULL
    THEN Bind(core_tmr_remove(core_tsk_unlink(s, tsk, ev), tsk),
              LAMBDA s2 : [core_tsk_insert(s2, tsk) EXCEPT
                              !.wakes[tsk] = IF @ < 2 THEN @ + 1 ELSE @,
                              !.woken = Append(@, tsk)])
    ELSE s

\* obj->queue
QueueHead(s, obj) == IF s.waiters[obj] = << >> THEN NULL ELSE s.waiters[obj][1]

\* core_one_wakeup that wakes the last waiter instead of the first
core_one_wakeup_last(s, obj, ev) ==
    core_tsk_wakeup(s, IF s.waiters[obj] = << >> THEN NULL
                       ELSE s.waiters[obj][Len(s.waiters[obj])], ev)

core_one_wakeup(s, obj, ev) == core_tsk_wakeup(s, QueueHead(s, obj), ev)

\* while (core_tsk_wakeup(lst->queue, event));
RECURSIVE core_all_wakeup(_, _, _)
core_all_wakeup(s, obj, ev) ==
    IF QueueHead(s, obj) # NULL
    THEN Bind(core_tsk_wakeup(s, QueueHead(s, obj), ev),
              LAMBDA s1 : core_all_wakeup(s1, obj, ev))
    ELSE s

(* ------------------------------------------------------------------------ *)
(* Effective priority                                                       *)
(* ------------------------------------------------------------------------ *)

\* for (mtx = tsk->list; mtx; mtx = mtx->list)
\*     if (mtx->queue) if (prio < mtx->queue->prio) prio = mtx->queue->prio;
RECURSIVE held_prio(_, _, _)
held_prio(s, mtxs, p) ==
    IF mtxs = << >> THEN p
    ELSE LET q == QueueHead(s, Head(mtxs))
         IN  held_prio(s, Tail(mtxs),
                       IF q # NULL /\ p < s.prio[q] THEN s.prio[q] ELSE p)

\* core_tsk_prio that stores the new priority and leaves a ready task where
\* it is in the ready list
core_tsk_prio_noinsert(s, tsk, p0) ==
    LET p == held_prio(s, s.held[tsk], p0)
    IN  IF s.prio[tsk] # p
        THEN LET s1 == [s EXCEPT !.prio[tsk] = p]
             IN  IF s1.id[tsk] = ID_DELAYED
                 THEN core_tsk_append(core_tsk_unlink(s1, tsk, E_SUCCESS), tsk, s1.guard[tsk])
                 ELSE s1
        ELSE s

\* core_tsk_prio that stores the new priority and leaves a waiting task where
\* it is in its waiters list
core_tsk_prio_noappend(s, tsk, p0) ==
    LET p == held_prio(s, s.held[tsk], p0)
    IN  IF s.prio[tsk] # p
        THEN LET s1 == [s EXCEPT !.prio[tsk] = p]
             IN  IF s1.id[tsk] = ID_READY
                 THEN core_tsk_insert(core_tsk_remove(s1, tsk), tsk)
                 ELSE s1
        ELSE s

\* core_tsk_prio that also takes a waiting task out of the delayed list and
\* inserts it again
core_tsk_prio_requeue(s, tsk, p0) ==
    LET p == held_prio(s, s.held[tsk], p0)
    IN  IF s.prio[tsk] # p
        THEN LET s1 == [s EXCEPT !.prio[tsk] = p]
             IN  IF s1.id[tsk] = ID_READY
                 THEN core_tsk_insert(core_tsk_remove(s1, tsk), tsk)
                 ELSE IF s1.id[tsk] = ID_DELAYED
                 THEN core_tmr_insert(
                         core_tmr_remove(
                            core_tsk_append(core_tsk_unlink(s1, tsk, E_SUCCESS),
                                            tsk, s1.guard[tsk]),
                            tsk),
                         tsk, ID_DELAYED)
                 ELSE s1
        ELSE s

core_tsk_prio(s, tsk, p0) ==
    LET p == held_prio(s, s.held[tsk], p0)
    IN  IF s.prio[tsk] # p
        THEN LET s1 == [s EXCEPT !.prio[tsk] = p]
             IN  IF s1.id[tsk] = ID_READY
                 THEN core_tsk_insert(core_tsk_remove(s1, tsk), tsk)
                 ELSE IF s1.id[tsk] = ID_DELAYED
                 THEN core_tsk_append(core_tsk_unlink(s1, tsk, E_SUCCESS), tsk, s1.guard[tsk])
                 ELSE s1
        ELSE s

(* ------------------------------------------------------------------------ *)
(* Waiting                                                                  *)
(* ------------------------------------------------------------------------ *)

\* priv_tsk_wait that does not ask for a context switch
priv_tsk_wait_noswitch(s, tsk, obj) ==
    LET s1 == core_tsk_append(s, tsk, obj)
        s2 == core_tsk_remove(s1, tsk)
        s3 == core_tmr_insert(s2, tsk, ID_DELAYED)
    IN  [s3 EXCEPT !.wakes[tsk] = 0]

priv_tsk_wait(s, tsk, obj) ==
    LET s1 == core_tsk_append(s, tsk, obj)
        s2 == core_tsk_remove(s1, tsk)
        s3 == core_tmr_insert(s2, tsk, ID_DELAYED)
        s4 == port_ctx_switch(s3)                     \* core_ctx_switch()
    IN  [s4 EXCEPT !.wakes[tsk] = 0]

\* core_tsk_waitFor without the test for IMMEDIATE
core_tsk_waitFor_nopoll(s, obj, d) ==
    priv_tsk_wait([s EXCEPT !.start[cur] = Counter, !.delay[cur] = d], cur, obj)

\* the kernel data after the call; the call returns E_TIMEOUT at once when the
\* delay is IMMEDIATE and tsk->event after the task has been resumed otherwise
core_tsk_waitFor(s, obj, d) ==
    LET s1 == [s EXCEPT !.start[cur] = Counter, !.delay[cur] = d]
    IN  IF s1.delay[cur] = IMMEDIATE THEN s1 ELSE priv_tsk_wait(s1, cur, obj)

\* core_tsk_waitUntil that takes a time in the past half of the counter's
\* range for a deadline that has been reached
core_tsk_waitUntil_past(s, obj, time) ==
    LET s1 == [s EXCEPT !.start[cur] = Counter, !.delay[cur] = U(time + Mod - Counter)]
    IN  IF s1.delay[cur] = IMMEDIATE \/ s1.delay[cur] >= Mod \div 2
        THEN s1
        ELSE priv_tsk_wait(s1, cur, obj)

core_tsk_waitUntil(s, obj, time) ==
    LET s1 == [s EXCEPT !.start[cur] = Counter, !.delay[cur] = U(time + Mod - Counter)]
    IN  IF s1.delay[cur] = IMMEDIATE THEN s1 ELSE priv_tsk_wait(s1, cur, obj)

(* ------------------------------------------------------------------------ *)
(* Timer handler                                                            *)
(* ------------------------------------------------------------------------ *)

\* OS_ROBIN && OS_TIMER: the compare register is programmed between two reads
\* of the counter; with the counter unchanged between them both tests agree
\* the tickless variant reads the hardware counter twice: now, and again (next)
\* after it has programmed the compare register; val is its result and now the
\* value of the counter it has read last
tmr_expired_reads(s, tmr, now, next) ==
    IF s.delay[tmr] = INFINITE THEN [val |-> FALSE, now |-> now]
    ELSE IF s.delay[tmr] <= U(now + Mod - s.start[tmr]) THEN [val |-> TRUE, now |-> now]
    ELSE IF s.delay[tmr] > U(next + Mod - s.start[tmr]) THEN [val |-> FALSE, now |-> next]
    ELSE [val |-> TRUE, now |-> next]

\* the counter does not advance within the call
priv_tmr_expired_tickless(s, tmr, now) == tmr_expired_reads(s, tmr, now, now).val

priv_tmr_expired_tick(s, tmr, now) ==
    IF s.delay[tmr] >= U(now + Mod - s.start[tmr] + 1) THEN FALSE ELSE TRUE

\* the test with "<" for "<=": an entry expires one tick after its deadline
priv_tmr_expired_late(s, tmr, now) ==
    s.delay[tmr] # INFINITE /\ s.delay[tmr] < U(now + Mod - s.start[tmr])

priv_tmr_expired(s, tmr, now) ==
    IF robin THEN priv_tmr_expired_tickless(s, tmr, now)
             ELSE priv_tmr_expired_tick(s, tmr, now)

\* WAIT.obj.next
DelayedHead(s) == IF s.delayed = << >> THEN WAIT ELSE s.delayed[1]

\* priv_tmr_wakeup that leaves the waiters of the timer asleep
priv_tmr_wakeup_nowake(s, tmr, ev) ==
    LET s1 == [s EXCEPT !.start[tmr] = U(@ + s.delay[tmr])]
        s2 == [s1 EXCEPT !.delay[tmr] = s.period[tmr], !.fired[tmr] = @ + 1]
        s3 == core_tmr_remove(s2, tmr)
    IN  IF s3.delay[tmr] # 0 THEN priv_tmr_insert(s3, tmr, ID_TIMER) ELSE s3

\* priv_tmr_wakeup that counts the next period from the time it runs
priv_tmr_wakeup_drift(s, tmr, ev) ==
    LET s1 == [s EXCEPT !.start[tmr] = Counter]
        s2 == [s1 EXCEPT !.delay[tmr] = s.period[tmr], !.fired[tmr] = @ + 1]
        s3 == core_tmr_remove(s2, tmr)
        s4 == IF s3.delay[tmr] # 0 THEN priv_tmr_insert(s3, tmr, ID_TIMER) ELSE s3
    IN  core_all_wakeup(s4, tmr, ev)

\* every timer of the model has a callback: tmr->state()
priv_tmr_wakeup(s, tmr, ev) ==
    LET s1 == [s EXCEPT !.start[tmr] = U(@ + s.delay[tmr])]
        s2 == [s1 EXCEPT !.delay[tmr] = s.period[tmr], !.fired[tmr] = @ + 1]
        s3 == core_tmr_remove(s2, tmr)
        s4 == IF s3.delay[tmr] # 0 THEN priv_tmr_insert(s3, tmr, ID_TIMER) ELSE s3
    IN  core_all_wakeup(s4, tmr, ev)

\* the handler that serves the head of the delayed list alone: "if" for "while"
tmr_handler_once(s, now) ==
    LET tmr == DelayedHead(s)
    IN  IF priv_tmr_expired(s, tmr, now)
        THEN IF s.id[tmr] = ID_TIMER
             THEN priv_tmr_wakeup(s, tmr, E_SUCCESS)
             ELSE core_tsk_wakeup(s, tmr, E_TIMEOUT)
        ELSE s

\* while (priv_tmr_expired(tmr = WAIT.obj.next)) ...
RECURSIVE tmr_handler_loop(_, _)
tmr_handler_loop(s, now) ==
    LET tmr == DelayedHead(s)
    IN  IF priv_tmr_expired(s, tmr, now)
        THEN Bind(IF s.id[tmr] = ID_TIMER
                  THEN priv_tmr_wakeup(s, tmr, E_SUCCESS)
                  ELSE core_tsk_wakeup(s, tmr, E_TIMEOUT),
                  LAMBDA s1 : tmr_handler_loop(s1, now))
        ELSE s

core_tmr_handler(s) == tmr_handler_loop(s, Counter)

(* ------------------------------------------------------------------------ *)
(* Scheduler pass                                                           *)
(* ------------------------------------------------------------------------ *)

\* the pass that puts the preempted task back at the front of the ready list
core_tsk_handler_front(s) ==
    Bind(core_ctx_reset(IF robin THEN s ELSE core_tmr_handler(s)),
         LAMBDA s1 : IF s1.id[cur] = ID_READY
                     THEN [core_tsk_remove(s1, cur) EXCEPT
                              !.ready = priv_rdy_insert(@, cur, 1), !.id[cur] = ID_READY]
                     ELSE s1)

\* the pass that re-inserts the current task whatever its state
core_tsk_handler_always(s) ==
    Bind(core_ctx_reset(IF robin THEN s ELSE core_tmr_handler(s)),
         LAMBDA s1 : Bind(core_tsk_remove(s1, cur), LAMBDA s2 : priv_tsk_insert(s2, cur)))

\* the kernel data after the pass; System.cur becomes IDLE.obj.next
core_tsk_handler(s) ==
    Bind(core_ctx_reset(IF robin THEN s ELSE core_tmr_handler(s)),
         LAMBDA s1 : IF s1.id[cur] = ID_READY
                     THEN Bind(core_tsk_remove(s1, cur), LAMBDA s2 : priv_tsk_insert(s2, cur))
                     ELSE s1)

ReadyHead(s) == IF s.ready = << >> THEN IDLE ELSE s.ready[1]

(* ------------------------------------------------------------------------ *)
(* Priority-inheritance mutex (osmutex.c is not part of the sources)        *)
(* ------------------------------------------------------------------------ *)

\* push mtx onto tsk's held list and make tsk the owner
priv_mtx_link(s, mtx, tsk) ==
    [s EXCEPT !.owner[mtx] = tsk, !.held[tsk] = <<mtx>> \o @]

\* pop mtx from its owner's held list and recompute the owner's priority
priv_mtx_unlink(s, mtx) ==
    LET tsk == s.owner[mtx]
        s1  == [s EXCEPT !.held[tsk] = Without(@, mtx), !.owner[mtx] = NULL]
    IN  core_tsk_prio(s1, tsk, basic[tsk])

\* lock of a mutex owned by another task: wait, and raise the owner
mtx_block(s, mtx, d) ==
    LET s1 == core_tsk_waitFor(s, mtx, d)
    IN  IF d = IMMEDIATE THEN s1
        ELSE core_tsk_prio(s1, s.owner[mtx], basic[s.owner[mtx]])

\* unlock by the owner: hand the mutex over to the first waiter, if any
mtx_release(s, mtx) ==
    LET s1 == priv_mtx_unlink(s, mtx)
        w  == QueueHead(s1, mtx)
    IN  IF w # NULL
        THEN core_one_wakeup(priv_mtx_link(s1, mtx, w), mtx, E_SUCCESS)
        ELSE s1

(* ------------------------------------------------------------------------ *)
(* Kernel heap                                                              *)
(* ------------------------------------------------------------------------ *)

\* ASIZE: a size rounded up to the alignment
ASIZE(size) == ((size + AlignSize - 1) \div AlignSize) * AlignSize

\* the address of the heap (any aligned address but 0, the null pointer) and
\* of the byte behind it
Heap == AlignSize
HeapEnd == Heap + ASIZE(HeapSize)

\* the block is cleared; s.base is the pointer returned, 0 for no memory
core_sys_alloc(s, size) ==
    IF size # 0 /\ s.heap + ASIZE(size) <= HeapEnd
    THEN [s EXCEPT !.base = s.heap, !.heap = s.heap + ASIZE(size)]
    ELSE [s EXCEPT !.base = 0]

(* ------------------------------------------------------------------------ *)
(* Message buffer                                                           *)
(* ------------------------------------------------------------------------ *)

\* assert(msg); assert(limit); assert(data); the object at msg is cleared and
\* set up (the model keeps no state of a created buffer)
msg_init(s, m, limit, data) ==
    IF m = 0 \/ limit = 0 \/ data = 0 THEN [s EXCEPT !.fault = TRUE] ELSE s

\* assert(limit); the object and its data area are taken from the heap
msg_create(s, limit) ==
    IF limit = 0 THEN [s EXCEPT !.fault = TRUE]
    ELSE Bind(core_sys_alloc(s, SizeofMsg + limit),
              LAMBDA s1 : msg_init(s1, s1.base, limit, s1.base + SizeofMsg))

\* tsk.tmp.msg of a task that is in no message-buffer call
NoTmp == [size |-> 0, data |-> << >>, req |-> 0]

\* the object representation of an unsigned (little-endian), and its value
Enc(n) == [i \in 1 .. SizeofUnsigned |-> (n \div 256 ^ (i - 1)) % 256]

RECURSIVE Dec(_)
Dec(b) == IF b = << >> THEN 0 ELSE Head(b) + 256 * Dec(Tail(b))

\* i++; if (i >= msg->limit) i = 0;
msg_next(m, i) == IF i + 1 >= m.limit THEN 0 ELSE i + 1

\* the index that the loop  while (size--) { ... }  started at i ends at
RECURSIVE msg_index(_, _, _)
msg_index(m, i, size) ==
    IF size = 0 THEN i ELSE msg_index(m, msg_next(m, i), size - 1)

\* while (size--) { *data++ = msg->data[i++]; if (i >= msg->limit) i = 0; }
RECURSIVE msg_read(_, _, _)
msg_read(m, i, size) ==
    IF size = 0 THEN << >>
    ELSE <<m.data[i]>> \o msg_read(m, msg_next(m, i), size - 1)

\* while (size--) { msg->data[i++] = *data++; if (i >= msg->limit) i = 0; }
RECURSIVE msg_write(_, _, _)
msg_write(m, i, data) ==
    IF data = << >> THEN m.data
    ELSE msg_write([m EXCEPT !.data[i] = Head(data)], msg_next(m, i), Tail(data))

\* the bytes priv_msg_peek copies out
priv_msg_peek(s, b, size) == msg_read(s.msg[b], s.msg[b].head, size)

priv_msg_count(s, b) ==
    IF s.msg[b].count > 0 THEN Dec(priv_msg_peek(s, b, SizeofUnsigned))
                          ELSE s.msg[b].count

\* priv_msg_space that reports the free space whoever waits
priv_msg_space_free(s, b) ==
    LET m == s.msg[b]
    IN  IF m.limit - m.count > SizeofUnsigned
        THEN m.limit - m.count - SizeofUnsigned
        ELSE 0

priv_msg_space(s, b) ==
    LET m == s.msg[b]
    IN  IF (m.count = 0 \/ QueueHead(s, b) = NULL) /\ m.limit - m.count > SizeofUnsigned
        THEN m.limit - m.count - SizeofUnsigned
        ELSE 0

priv_msg_limit(s, b) ==
    IF s.msg[b].limit > SizeofUnsigned THEN s.msg[b].limit - SizeofUnsigned ELSE 0

\* the buffer after priv_msg_get; the bytes it copies out are those of
\* priv_msg_peek before it
priv_msg_get(s, b, size) ==
    [s EXCEPT !.msg[b].count = @ - size,
              !.msg[b].head  = msg_index(s.msg[b], @, size)]

\* priv_msg_put that leaves the tail where it is
priv_msg_put_notail(s, b, data) ==
    [s EXCEPT !.msg[b].count = @ + Len(data),
              !.msg[b].data  = msg_write(s.msg[b], s.msg[b].tail, data)]

priv_msg_put(s, b, data) ==
    [s EXCEPT !.msg[b].count = @ + Len(data),
              !.msg[b].data  = msg_write(s.msg[b], s.msg[b].tail, data),
              !.msg[b].tail  = msg_index(s.msg[b], @, Len(data))]

\* priv_msg_skip that does not wrap the head index
priv_msg_skip_nowrap(s, b, size) ==
    [s EXCEPT !.msg[b].count = @ - size, !.msg[b].head = @ + size]

priv_msg_skip(s, b, size) ==
    LET head == s.msg[b].head + size
    IN  [s EXCEPT !.msg[b].count = @ - size,
                  !.msg[b].head  = IF head >= s.msg[b].limit THEN head - s.msg[b].limit
                                                             ELSE head]

\* assert(msg->count); the length read is left in s.size
priv_msg_getSize(s, b) ==
    IF s.msg[b].count = 0 THEN [s EXCEPT !.fault = TRUE]
    ELSE [priv_msg_get(s, b, SizeofUnsigned) EXCEPT
             !.size = Dec(priv_msg_peek(s, b, SizeofUnsigned))]

\* assert(size);
priv_msg_putSize(s, b, size) ==
    IF size = 0 THEN [s EXCEPT !.fault = TRUE]
    ELSE priv_msg_put(s, b, Enc(size))

\* while (msg->queue != 0 && msg->queue->tmp.msg.size <= priv_msg_space(msg)) ...
RECURSIVE msg_getUpdate_loop(_, _)
msg_getUpdate_loop(s, b) ==
    LET q == QueueHead(s, b)
    IN  IF ~s.fault /\ q # NULL /\ s.tmp[q].size <= priv_msg_space(s, b)
        THEN Bind(priv_msg_putSize(s, b, s.tmp[q].size),
                  LAMBDA s1 :
                     IF s1.fault THEN s1
                     ELSE Bind(core_tsk_wakeup(
                                  [priv_msg_put(s1, b, SubSeq(s1.tmp[q].data, 1, s1.tmp[q].size))
                                      EXCEPT !.tmp[q].size = 0],
                                  q, E_SUCCESS),
                               LAMBDA s2 : msg_getUpdate_loop(s2, b)))
        ELSE s

\* the oldest message goes to the caller's buffer (s.data, its length s.len),
\* then the blocked senders that fit are served
priv_msg_getUpdate(s, b) ==
    Bind(priv_msg_getSize(s, b),
         LAMBDA s1 :
            IF s1.fault THEN s1
            ELSE msg_getUpdate_loop(
                    [priv_msg_get(s1, b, s1.size) EXCEPT
                        !.data = priv_msg_peek(s1, b, s1.size), !.len = s1.size],
                    b))

\* the loop of priv_msg_putUpdate that stops at a receiver whose buffer is too
\* small and leaves it blocked
RECURSIVE msg_putUpdate_loop_leave(_, _)
msg_putUpdate_loop_leave(s, b) ==
    LET q == QueueHead(s, b)
    IN  IF s.fault \/ q = NULL THEN s
        ELSE IF s.tmp[q].size >= priv_msg_count(s, b)
        THEN Bind(priv_msg_getSize(s, b),
                  LAMBDA s1 :
                     IF s1.fault THEN s1
                     ELSE Bind(core_tsk_wakeup(
                                  [priv_msg_get(s1, b, s1.size) EXCEPT
                                      !.tmp[q].data = priv_msg_peek(s1, b, s1.size),
                                      !.tmp[q].size = @ - s1.size],
                                  q, E_SUCCESS),
                               LAMBDA s2 : msg_putUpdate_loop_leave(s2, b)))
        ELSE s

\* while (msg->queue != 0) ...
RECURSIVE msg_putUpdate_loop(_, _)
msg_putUpdate_loop(s, b) ==
    LET q == QueueHead(s, b)
    IN  IF s.fault \/ q = NULL THEN s
        ELSE IF s.tmp[q].size >= priv_msg_count(s, b)
        THEN Bind(priv_msg_getSize(s, b),
                  LAMBDA s1 :
                     IF s1.fault THEN s1
                     ELSE Bind(core_tsk_wakeup(
                                  [priv_msg_get(s1, b, s1.size) EXCEPT
                                      !.tmp[q].data = priv_msg_peek(s1, b, s1.size),
                                      !.tmp[q].size = @ - s1.size],
                                  q, E_SUCCESS),
                               LAMBDA s2 : msg_putUpdate_loop(s2, b)))
        ELSE Bind(core_tsk_wakeup(s, q, E_TIMEOUT),
                  LAMBDA s1 : msg_putUpdate_loop(s1, b))

\* assert(size <= priv_msg_space(msg)); the message is stored, then handed
\* to the blocked receivers
priv_msg_putUpdate(s, b, data) ==
    IF Len(data) > priv_msg_space(s, b) THEN [s EXCEPT !.fault = TRUE]
    ELSE Bind(priv_msg_putSize(s, b, Len(data)),
              LAMBDA s1 :
                 IF s1.fault THEN s1
                 ELSE msg_putUpdate_loop(priv_msg_put(s1, b, data), b))

msg_take(s, b, size) ==
    [(IF s.msg[b].count > 0 /\ size >= priv_msg_count(s, b)
      THEN priv_msg_getUpdate(s, b)
      ELSE s)
     EXCEPT !.call = [name |-> "take", data |-> << >>, size |-> size]]

\* wait(msg, time): wait is a pointer to core_tsk_waitFor or core_tsk_waitUntil
call_wait(wait, s, obj, time) ==
    IF wait = "core_tsk_waitUntil" THEN core_tsk_waitUntil(s, obj, time)
                                   ELSE core_tsk_waitFor(s, obj, time)

\* priv_msg_wait that suspends the caller when the oldest message does not
\* fit its buffer
priv_msg_wait_block(s, b, size, time, wait) ==
    [(IF s.msg[b].count > 0 /\ size >= priv_msg_count(s, b)
      THEN priv_msg_getUpdate(s, b)
      ELSE IF size > 0
      THEN Bind(call_wait(wait,
                          [s EXCEPT !.tmp[cur] = [size |-> size, data |-> << >>, req |-> size]],
                          b, time),
                LAMBDA s1 : [s1 EXCEPT !.len = size - s1.tmp[cur].size])
      ELSE s)
     EXCEPT !.call = [name |-> "wait", data |-> << >>, size |-> size]]

\* a call that does not suspend returns len = size - System.cur->tmp.msg.size
priv_msg_wait(s, b, size, time, wait) ==
    [(IF s.msg[b].count > 0
      THEN IF size >= priv_msg_count(s, b) THEN priv_msg_getUpdate(s, b) ELSE s
      ELSE IF size > 0
      THEN Bind(call_wait(wait,
                          [s EXCEPT !.tmp[cur] = [size |-> size, data |-> << >>, req |-> size]],
                          b, time),
                LAMBDA s1 : [s1 EXCEPT !.len = size - s1.tmp[cur].size])
      ELSE s)
     EXCEPT !.call = [name |-> "wait", data |-> << >>, size |-> size]]

msg_waitFor(s, b, size, d) == priv_msg_wait(s, b, size, d, "core_tsk_waitFor")

msg_waitUntil(s, b, size, time) == priv_msg_wait(s, b, size, time, "core_tsk_waitUntil")

msg_give(s, b, data) ==
    [(IF Len(data) > 0 /\ Len(data) <= priv_msg_space(s, b)
      THEN [priv_msg_putUpdate(s, b, data) EXCEPT !.len = Len(data)]
      ELSE s)
     EXCEPT !.call = [name |-> "give", data |-> data, size |-> Len(data)]]

\* priv_msg_send that counts the message as sent when it suspends
priv_msg_send_counted(s, b, data, time, wait) ==
    [(IF Len(data) > 0
      THEN IF Len(data) <= priv_msg_space(s, b)
           THEN [priv_msg_putUpdate(s, b, data) EXCEPT !.len = Len(data)]
           ELSE IF Len(data) <= priv_msg_limit(s, b)
           THEN Bind(call_wait(wait,
                               [s EXCEPT !.tmp[cur] = [size |-> 0, data |-> data,
                                                       req |-> Len(data)]],
                               b, time),
                     LAMBDA s1 : [s1 EXCEPT !.len = Len(data) - s1.tmp[cur].size])
           ELSE s
      ELSE s)
     EXCEPT !.call = [name |-> "send", data |-> data, size |-> Len(data)]]

priv_msg_send(s, b, data, time, wait) ==
    [(IF Len(data) > 0
      THEN IF Len(data) <= priv_msg_space(s, b)
           THEN [priv_msg_putUpdate(s, b, data) EXCEPT !.len = Len(data)]
           ELSE IF Len(data) <= priv_msg_limit(s, b)
           THEN Bind(call_wait(wait,
                               [s EXCEPT !.tmp[cur] = [size |-> Len(data), data |-> data,
                                                       req |-> Len(data)]],
                               b, time),
                     LAMBDA s1 : [s1 EXCEPT !.len = Len(data) - s1.tmp[cur].size])
           ELSE s
      ELSE s)
     EXCEPT !.call = [name |-> "send", data |-> data, size |-> Len(data)]]

msg_sendFor(s, b, data, d) == priv_msg_send(s, b, data, d, "core_tsk_waitFor")

msg_sendUntil(s, b, data, time) == priv_msg_send(s, b, data, time, "core_tsk_waitUntil")

\* while (size > priv_msg_space(msg)) priv_msg_skip(msg, priv_msg_getSize(msg));
RECURSIVE msg_push_loop(_, _, _)
msg_push_loop(s, b, size) ==
    IF ~s.fault /\ size > priv_msg_space(s, b)
    THEN Bind(priv_msg_getSize(s, b),
              LAMBDA s1 : IF s1.fault THEN s1
                          ELSE msg_push_loop(priv_msg_skip(s1, b, s1.size), b, size))
    ELSE s

\* msg_push that discards every stored message
msg_push_flush(s, b, data) ==
    IF /\ s.msg[b].count = 0 \/ QueueHead(s, b) = NULL
       /\ Len(data) > 0 /\ Len(data) <= priv_msg_limit(s, b)
    THEN Bind([s EXCEPT !.msg[b].count = 0, !.msg[b].head = s.msg[b].tail,
                        !.call = [name |-> "push", data |-> data, size |-> Len(data),
                                  before |-> s.msg[b].count, skipped |-> s.msg[b].count]],
              LAMBDA s1 : [priv_msg_putUpdate(s1, b, data) EXCEPT !.len = Len(data)])
    ELSE [s EXCEPT !.call = [name |-> "push", data |-> data, size |-> Len(data),
                             before |-> s.msg[b].count, skipped |-> 0]]

\* call.before is the number of bytes stored before the call and call.skipped
\* the number of bytes the loop has discarded
msg_push(s, b, data) ==
    IF /\ s.msg[b].count = 0 \/ QueueHead(s, b) = NULL
       /\ Len(data) > 0 /\ Len(data) <= priv_msg_limit(s, b)
    THEN Bind(msg_push_loop(s, b, Len(data)),
              LAMBDA s1 : IF s1.fault THEN s1
                          ELSE [priv_msg_putUpdate(s1, b, data) EXCEPT
                                   !.len = Len(data),
                                   !.call = [name |-> "push", data |-> data, size |-> Len(data),
                                             before |-> s.msg[b].count,
                                             skipped |-> s.msg[b].count - s1.msg[b].count]])
    ELSE [s EXCEPT !.call = [name |-> "push", data |-> data, size |-> Len(data),
                             before |-> s.msg[b].count, skipped |-> 0]]

\* msg_kill that wakes the first waiter only
msg_kill_one(s, b) ==
    core_one_wakeup([s EXCEPT !.msg[b].count = 0, !.msg[b].head = 0, !.msg[b].tail = 0,
                              !.call = [name |-> "kill", data |-> << >>, size |-> 0]],
                    b, E_STOPPED)

\* msg_kill that always asks for a context switch
msg_kill_switch(s, b) ==
    [core_all_wakeup([s EXCEPT !.msg[b].count = 0, !.msg[b].head = 0, !.msg[b].tail = 0,
                               !.call = [name |-> "kill", data |-> << >>, size |-> 0]],
                     b, E_STOPPED)
     EXCEPT !.pending = TRUE]

msg_kill(s, b) ==
    core_all_wakeup([s EXCEPT !.msg[b].count = 0, !.msg[b].head = 0, !.msg[b].tail = 0,
                              !.call = [name |-> "kill", data |-> << >>, size |-> 0]],
                    b, E_STOPPED)

(* ------------------------------------------------------------------------ *)
(* Inputs                                                                   *)
(* ------------------------------------------------------------------------ *)

LongDelay == INFINITE - 1             \* a finite delay of half the range or more
Delays    == (0 .. MaxDelay) \cup {LongDelay, INFINITE}

NoRet == [tsk |-> NULL, val |-> "none"]
Ret(t, v) == [tsk |-> t, val |-> v]

\* a message-buffer call returns a length, with `data` in the caller's buffer
RetLen(t, len, data) == [tsk |-> t, val |-> len, data |-> data]

\* the messages a task sends
Messages == UNION {[1 .. n -> Bytes] : n \in 1 .. MaxSize}

\* the messages sent to the larger buffer: they differ in length and content
RingMessages == {[i \in 1 .. n |-> n + i - 1] : n \in 1 .. RingSize}

\* the messages pushed: those, the empty message and a message too long for
\* the buffer
PushMessages ==
    RingMessages \cup {<< >>, [i \in 1 .. RingLimit - SizeofUnsigned + 1 |-> 1]}

\* the current task is executing task code (no context switch is pending)
Running == ~fault /\ ~pending /\ cur \in Tasks /\ id[cur] = ID_READY

\* time by which a delayed entry is overdue
Overdue(tmr) == U(Counter + 2 * Mod - start[tmr] - delay[tmr])

(* ------------------------------------------------------------------------ *)
(* Initial state: MAIN is running, IDLE <-> MAIN, WAIT is alone            *)
(* ------------------------------------------------------------------------ *)

Init ==
    /\ id = [n \in Tasks \cup Timers \cup {IDLE} |->
             CASE n = MAIN -> ID_READY [] n = IDLE -> ID_IDLE [] OTHER -> ID_STOPPED]
    /\ ready = <<MAIN>>
    /\ delayed = << >>
    /\ waiters = [o \in Objs |-> << >>]
    /\ guard = [t \in Tasks |-> NULL]
    /\ basic \in {b \in [Tasks \cup {IDLE} -> Prios \cup {0}] :
                    /\ b[MAIN] = OS_MAIN_PRIO /\ b[IDLE] = 0
                    /\ b["T1"] = 1 /\ b["T2"] \in Prios}
    /\ prio = basic
    /\ start = [n \in Tasks \cup Timers \cup {WAIT} |-> 0]
    /\ delay = [n \in Tasks \cup Timers \cup {WAIT} |-> IF n = WAIT THEN INFINITE ELSE 0]
    /\ period = [n \in Timers |-> 0]
    /\ event = [t \in Tasks |-> E_SUCCESS]
    /\ held  = [t \in Tasks |-> << >>]
    /\ owner = [m \in Mutexes |-> NULL]
    /\ pending = FALSE
    /\ msg = [b \in Bufs |-> [count |-> 0, head |-> 0, tail |-> 0, limit |-> MaxLimit,
                              data |-> [i \in 0 .. MaxLimit - 1 |-> 0]]]
    /\ tmp = [t \in Tasks |-> NoTmp]
    /\ fault = FALSE
    /\ cur = MAIN
    /\ Counter = 0
    /\ robin \in BOOLEAN
    /\ inwait = {}
    /\ ret = NoRet
    /\ call = [name |-> "none", data |-> << >>, size |-> 0]
    /\ heap = Heap
    /\ port = PortReset
    /\ fired = [t \in Timers |-> 0]
    /\ wakes = [t \in Tasks |-> 0]
    /\ woken = << >>
    /\ arrive = << >>
    /\ placed = << >>
    /\ wrapped = FALSE

(* ------------------------------------------------------------------------ *)
(* Actions                                                                  *)
(* ------------------------------------------------------------------------ *)

\* tsk_start: a task that is not running yet is made ready
tsk_start(t) ==
    /\ Running
    /\ id[t] = ID_STOPPED
    /\ Commit(core_tsk_insert(K, t))
    /\ ret' = NoRet
    /\ UNCHANGED <<basic, cur, Counter, robin, inwait>>

\* what a wait does to its caller: return E_TIMEOUT at once, or suspend
Waited(d) ==
    IF d = IMMEDIATE
    THEN ret' = Ret(cur, E_TIMEOUT) /\ inwait' = inwait
    ELSE ret' = NoRet /\ inwait' = inwait \cup {cur}

wait_for(obj, d) ==
    /\ Running
    /\ Commit(core_tsk_waitFor(K, obj, d))
    /\ Waited(d)
    /\ UNCHANGED <<basic, cur, Counter, robin>>

wait_until(obj, time) ==
    /\ Running
    /\ Commit(core_tsk_waitUntil(K, obj, time))
    /\ Waited(U(time + Mod - Counter))
    /\ UNCHANGED <<basic, cur, Counter, robin>>

\* give: from a task or from an interrupt handler
wake_one(obj) ==
    /\ ~fault
    /\ Commit(core_one_wakeup(K, obj, E_SUCCESS))
    /\ ret' = NoRet
    /\ UNCHANGED <<basic, cur, Counter, robin, inwait>>

\* kill: thread mode only
wake_all(obj) ==
    /\ Running
    /\ Commit(core_all_wakeup(K, obj, E_STOPPED))
    /\ ret' = NoRet
    /\ UNCHANGED <<basic, cur, Counter, robin, inwait>>

mtx_lock(mtx, d) ==
    /\ Running
    /\ IF owner[mtx] = NULL
       THEN /\ Commit(priv_mtx_link(K, mtx, cur))
            /\ ret' = Ret(cur, E_SUCCESS) /\ inwait' = inwait
       ELSE IF owner[mtx] = cur
       THEN /\ Commit(K)
            /\ ret' = Ret(cur, "E_DEADLOCK") /\ inwait' = inwait
       ELSE /\ Commit(mtx_block(K, mtx, d))
            /\ Waited(d)
    /\ UNCHANGED <<basic, cur, Counter, robin>>

mtx_unlock(mtx) ==
    /\ Running
    /\ IF owner[mtx] = cur
       THEN /\ Commit(mtx_release(K, mtx))
            /\ ret' = Ret(cur, E_SUCCESS)
       ELSE /\ Commit(K)
            /\ ret' = Ret(cur, "E_NOT_OWNER")
    /\ UNCHANGED <<basic, cur, Counter, robin, inwait>>

\* what a message-buffer call does to its caller: suspend, or return a length
\* (nothing returns when an assert has stopped the program)
Returned(s) ==
    IF s.id[cur] = ID_DELAYED
    THEN ret' = NoRet /\ inwait' = inwait \cup {cur}
    ELSE /\ ret' = IF s.fault THEN NoRet ELSE RetLen(cur, s.len, s.data)
         /\ inwait' = inwait

\* msg_give and msg_take: from a task or from an interrupt handler
call_msg_give(b, data) ==
    /\ ~fault
    /\ \E s \in {msg_give(K, b, data)} :
           /\ Commit(s)
           /\ ret' = IF s.fault THEN NoRet ELSE RetLen("caller", s.len, s.data)
    /\ UNCHANGED <<basic, cur, Counter, robin, inwait>>

call_msg_take(b, size) ==
    /\ ~fault
    /\ \E s \in {msg_take(K, b, size)} :
           /\ Commit(s)
           /\ ret' = IF s.fault THEN NoRet ELSE RetLen("caller", s.len, s.data)
    /\ UNCHANGED <<basic, cur, Counter, robin, inwait>>

call_msg_push(b, data) ==
    /\ ~fault
    /\ \E s \in {msg_push(K, b, data)} :
           /\ Commit(s)
           /\ ret' = IF s.fault THEN NoRet ELSE RetLen("caller", s.len, s.data)
    /\ UNCHANGED <<basic, cur, Counter, robin, inwait>>

\* the blocking calls and msg_kill: thread mode only
call_msg_waitFor(b, size, d) ==
    /\ Running
    /\ \E s \in {msg_waitFor(K, b, size, d)} : Commit(s) /\ Returned(s)
    /\ UNCHANGED <<basic, cur, Counter, robin>>

call_msg_sendFor(b, data, d) ==
    /\ Running
    /\ \E s \in {msg_sendFor(K, b, data, d)} : Commit(s) /\ Returned(s)
    /\ UNCHANGED <<basic, cur, Counter, robin>>

call_msg_waitUntil(b, size, time) ==
    /\ Running
    /\ \E s \in {msg_waitUntil(K, b, size, time)} : Commit(s) /\ Returned(s)
    /\ UNCHANGED <<basic, cur, Counter, robin>>

\* an allocation by another create, and msg_create: thread mode only
call_sys_alloc(size) ==
    /\ Running
    /\ \E s \in {core_sys_alloc(K, size)} : Commit(s) /\ ret' = Ret(cur, s.base)
    /\ UNCHANGED <<basic, cur, Counter, robin, inwait>>

call_msg_create(limit) ==
    /\ Running
    /\ \E s \in {msg_create(K, limit)} :
           /\ Commit(s)
           /\ ret' = IF s.fault THEN NoRet ELSE Ret(cur, s.base)
    /\ UNCHANGED <<basic, cur, Counter, robin, inwait>>

call_msg_kill(b) ==
    /\ Running
    /\ \E s \in {msg_kill(K, b)} : Commit(s)
    /\ ret' = NoRet
    /\ UNCHANGED <<basic, cur, Counter, robin, inwait>>

\* a stopped timer is started with a first delay d and a period p (0 for a
\* one-shot timer); ostimer.c is not part of the sources
tmr_start(tmr, d, p) ==
    /\ Running
    /\ id[tmr] = ID_STOPPED
    /\ Commit(core_tmr_insert([K EXCEPT !.start[tmr] = Counter, !.delay[tmr] = d,
                                        !.period[tmr] = p],
                              tmr, ID_TIMER))
    /\ ret' = NoRet
    /\ UNCHANGED <<basic, cur, Counter, robin, inwait>>

\* one call of priv_tmr_expired on the head of the delayed list, as the handler
\* makes it; the hardware counter of the tickless build may advance by one
\* between the two reads of the call
tmr_expired ==
    /\ ~fault /\ delayed # << >> /\ ret = NoRet
    /\ \E next \in {Counter, U(Counter + 1)} :
          LET tmr == DelayedHead(K)
              r   == IF robin THEN tmr_expired_reads(K, tmr, Counter, next)
                              ELSE [val |-> priv_tmr_expired_tick(K, tmr, Counter),
                                    now |-> Counter]
          IN  /\ ret' = Ret(tmr, r.val)
              /\ Counter' = r.now
    /\ UNCHANGED kvars
    /\ UNCHANGED <<basic, cur, robin, inwait, wrapped>>

\* the body of the current task (idle_hook for IDLE) returns: core_tsk_break
\* asks for a switch
tsk_break ==
    /\ ~fault /\ ~pending /\ (cur = IDLE \/ id[cur] = ID_READY)
    /\ Commit(port_ctx_switch(K))
    /\ ret' = NoRet
    /\ UNCHANGED <<basic, cur, Counter, robin, inwait>>

\* OS_ROBIN: the round-robin interrupt asks for a switch
SysTick_Handler ==
    /\ ~fault /\ robin /\ ~pending
    /\ Commit(port_ctx_switch(K))
    /\ ret' = NoRet
    /\ UNCHANGED <<basic, cur, Counter, robin, inwait>>

\* the timer interrupt
tmr_handler ==
    /\ ~fault
    /\ \E s \in {core_tmr_handler(K)} : Commit(s)
    /\ ret' = NoRet
    /\ UNCHANGED <<basic, cur, Counter, robin, inwait>>

\* PendSV: the scheduler pass; the task it resumes returns from its wait
\* with tsk->event
tsk_handler ==
    /\ ~fault /\ pending
    /\ \E s \in {core_tsk_handler(K)} :
           LET n == ReadyHead(s)
           IN  /\ Commit(s)
               /\ cur' = n
               /\ ret' = IF n \notin inwait THEN NoRet
                          ELSE IF s.guard[n] \in Bufs
                          THEN RetLen(n, s.tmp[n].req - s.tmp[n].size, s.tmp[n].data)
                          ELSE Ret(n, s.event[n])
               /\ inwait' = inwait \ {n}
    /\ UNCHANGED <<basic, Counter, robin>>

\* tickless mode with HW_TIMER_SIZE < OS_TIMER_SIZE: the hardware timer counts
\* and raises TATOMIS when it overflows; the overflow is served before the
\* next one
HwMod == 2 ^ HwTimerBits

Turns == port.cnt + (IF port.mis THEN 1 ELSE 0) + (IF port.hpc = "cleared" THEN 1 ELSE 0)

hw_count ==
    /\ ~fault
    /\ port.tav = HwMod - 1 => ~port.mis /\ Turns < MaxTurns
    /\ Commit([K EXCEPT !.port.tav = (@ + 1) % HwMod,
                        !.port.mis = @ \/ port.tav = HwMod - 1])
    /\ ret' = NoRet
    /\ UNCHANGED <<basic, cur, Counter, robin, inwait>>

\* the interrupt is taken unless the running call of port_sys_time is inside
\* a critical section or in an interrupt handler that has preempted this one
HandlerRuns == port.rpc = "idle" \/ port.ctx = "task"

\* if (WTIMER0->MIS & TIMER_MIS_TATOMIS) { WTIMER0->ICR = TIMER_ICR_TATOCINT;
WTIMER0A_Handler_clear ==
    /\ ~fault /\ port.mis /\ port.hpc = "idle" /\ HandlerRuns
    /\ Commit([K EXCEPT !.port.mis = FALSE, !.port.hpc = "cleared"])
    /\ ret' = NoRet
    /\ UNCHANGED <<basic, cur, Counter, robin, inwait>>

\* core_sys_tick(); } WTIMER0->ICR = TIMER_ICR_TAMCINT; core_tmr_handler();
\* core_sys_tick adds 1 << HW_TIMER_SIZE to System.cnt
WTIMER0A_Handler_tick ==
    /\ ~fault /\ port.hpc = "cleared" /\ HandlerRuns
    /\ Commit(core_tmr_handler([K EXCEPT !.port.cnt = @ + 1, !.port.hpc = "idle"]))
    /\ ret' = NoRet
    /\ UNCHANGED <<basic, cur, Counter, robin, inwait>>

\* a call from a task does not run while the handler is active
ReaderRuns == port.ctx = "task" => port.hpc = "idle"

\* port_sys_time returns v
port_sys_time_return(v) ==
    /\ Commit([K EXCEPT !.port.rpc = "idle", !.port.prev = port.read, !.port.read = v])
    /\ ret' = Ret(cur, v)

\* the call, from a task inside ("locked") or outside ("task") a critical
\* section or from an interrupt handler ("isr"), and cnt = System.cnt;
port_sys_time_cnt(ctx) ==
    /\ ~fault /\ port.rpc = "idle"
    /\ ctx \in {"locked", "task"} => port.hpc = "idle"
    /\ Commit([K EXCEPT !.port.rpc = "tck", !.port.ctx = ctx, !.port.rcnt = port.cnt,
                        !.port.open = @ \/ ctx # "locked"])
    /\ ret' = NoRet
    /\ UNCHANGED <<basic, cur, Counter, robin, inwait>>

\* tck = -WTIMER0->TAV;
port_sys_time_tck ==
    /\ ~fault /\ port.rpc = "tck" /\ ReaderRuns
    /\ Commit([K EXCEPT !.port.rpc = "mis", !.port.rtck = port.tav])
    /\ ret' = NoRet
    /\ UNCHANGED <<basic, cur, Counter, robin, inwait>>

\* if (WTIMER0->MIS & TIMER_MIS_TATOMIS) ... return cnt + tck;
port_sys_time_mis ==
    /\ ~fault /\ port.rpc = "mis" /\ ReaderRuns
    /\ IF port.mis
       THEN Commit([K EXCEPT !.port.rpc = "again"]) /\ ret' = NoRet
       ELSE port_sys_time_return(port.rcnt * HwMod + port.rtck)
    /\ UNCHANGED <<basic, cur, Counter, robin, inwait>>

\* { tck = -WTIMER0->TAV; cnt += (cnt_t)(1) << (HW_TIMER_SIZE); } return cnt + tck;
port_sys_time_again ==
    /\ ~fault /\ port.rpc = "again" /\ ReaderRuns
    /\ port_sys_time_return((port.rcnt + 1) * HwMod + port.tav)
    /\ UNCHANGED <<basic, cur, Counter, robin, inwait>>

\* the tick counter advances; the timer interrupt is at most MaxLate ticks
\* late for an entry that has expired.  An entry that has been in the list
\* for 2^CntBits - 1 ticks is at the end of the counter's range.
Tick ==
    /\ ~fault
    /\ LET tmr == DelayedHead(K)
       IN  priv_tmr_expired(K, tmr, Counter) => Overdue(tmr) < MaxLate
    /\ Counter' = U(Counter + 1)
    /\ ret' = NoRet
    /\ wrapped' = \/ wrapped
                  \/ \E e \in Range(delayed) :
                        delay[e] # INFINITE /\ U(Counter + 1 + Mod - start[e]) = Mod - 1
    /\ UNCHANGED <<kvars, basic, cur, robin, inwait>>

(* ------------------------------------------------------------------------ *)
(* Specifications                                                           *)
(* ------------------------------------------------------------------------ *)

\* The wait protocol under the clock: MAIN and T1 wait on S with every kind
\* of delay, are given to and timed out.
Next ==
    \/ tsk_start("T1")
    \/ \E o \in Sems, d \in Delays : wait_for(o, d)
    \/ \E o \in Sems, d \in Delays : wait_until(o, U(Counter + d))
    \/ \E o \in Sems : wake_one(o)
    \/ tsk_break
    \/ SysTick_Handler
    \/ tmr_handler
    \/ tsk_handler
    \/ Tick

Spec == Init /\ [][Next]_vars

\* The same with kills and fewer delays, and with what the hardware
\* guarantees: the clock ticks, the timer interrupt is served and a pending
\* context switch is served.
NextFair ==
    \/ tsk_start("T1")
    \/ \E o \in Sems, d \in {1, INFINITE} : wait_for(o, d)
    \/ \E o \in Sems : wake_one(o)
    \/ \E o \in Sems : wake_all(o)
    \/ tsk_break
    \/ SysTick_Handler
    \/ tmr_handler
    \/ tsk_handler
    \/ Tick

SpecFair ==
    /\ Init /\ [][NextFair]_vars
    /\ WF_vars(Tick) /\ WF_vars(tmr_handler) /\ WF_vars(tsk_handler)

\* Priorities: three tasks, the object S and two mutexes; waits have no
\* deadline, so the clock does not matter and stands still.
NextPrio ==
    \/ \E t \in UserTasks : tsk_start(t)
    \/ \E o \in Sems : wait_for(o, INFINITE)
    \/ \E o \in Sems : wake_one(o)
    \/ \E o \in Sems : wake_all(o)
    \/ \E m \in Mutexes : mtx_lock(m, INFINITE)
    \/ \E m \in Mutexes : mtx_unlock(m)
    \/ tsk_break
    \/ SysTick_Handler
    \/ tsk_handler

SpecPrio == Init /\ [][NextPrio]_vars

\* The message buffer: three tasks send to and receive from B, block on it
\* without a deadline, and kill it; the clock stands still.
NextMsg ==
    \/ \E t \in UserTasks : tsk_start(t)
    \/ \E b \in Bufs, data \in Messages : call_msg_give(b, data)
    \/ \E b \in Bufs, size \in 1 .. MaxSize : call_msg_take(b, size)
    \/ \E b \in Bufs, data \in Messages : call_msg_push(b, data)
    \/ \E b \in Bufs, size \in 1 .. MaxSize : call_msg_waitFor(b, size, INFINITE)
    \/ \E b \in Bufs, data \in Messages : call_msg_sendFor(b, data, INFINITE)
    \/ \E b \in Bufs : call_msg_kill(b)
    \/ tsk_break
    \/ SysTick_Handler
    \/ tsk_handler

SpecMsg == Init /\ [][NextMsg]_vars

\* The message buffer with room for two messages: MAIN and T1 send and
\* receive messages of different lengths and contents and block without a
\* deadline; the clock stands still.
InitRing ==
    /\ id = [n \in Tasks \cup Timers \cup {IDLE} |->
             CASE n = MAIN -> ID_READY [] n = IDLE -> ID_IDLE [] OTHER -> ID_STOPPED]
    /\ ready = <<MAIN>>
    /\ delayed = << >>
    /\ waiters = [o \in Objs |-> << >>]
    /\ guard = [t \in Tasks |-> NULL]
    /\ basic = [t \in Tasks \cup {IDLE} |-> IF t \in UserTasks THEN 1 ELSE 0]
    /\ prio = basic
    /\ start = [n \in Tasks \cup Timers \cup {WAIT} |-> 0]
    /\ delay = [n \in Tasks \cup Timers \cup {WAIT} |-> IF n = WAIT THEN INFINITE ELSE 0]
    /\ period = [n \in Timers |-> 0]
    /\ event = [t \in Tasks |-> E_SUCCESS]
    /\ held  = [t \in Tasks |-> << >>]
    /\ owner = [m \in Mutexes |-> NULL]
    /\ pending = FALSE
    /\ msg = [b \in Bufs |-> [count |-> 0, head |-> 0, tail |-> 0, limit |-> RingLimit,
                              data |-> [i \in 0 .. RingLimit - 1 |-> 0]]]
    /\ tmp = [t \in Tasks |-> NoTmp]
    /\ fault = FALSE
    /\ cur = MAIN
    /\ Counter = 0
    /\ robin \in BOOLEAN
    /\ inwait = {}
    /\ ret = NoRet
    /\ call = [name |-> "none", data |-> << >>, size |-> 0]
    /\ heap = Heap
    /\ port = PortReset
    /\ fired = [t \in Timers |-> 0]
    /\ wakes = [t \in Tasks |-> 0]
    /\ woken = << >>
    /\ arrive = << >>
    /\ placed = << >>
    /\ wrapped = FALSE

NextRing ==
    \/ tsk_start("T1")
    \/ \E b \in Bufs, data \in RingMessages : call_msg_give(b, data)
    \/ \E b \in Bufs, size \in 1 .. RingSize : call_msg_take(b, size)
    \/ \E b \in Bufs, size \in 1 .. RingSize : call_msg_waitFor(b, size, INFINITE)
    \/ \E b \in Bufs, data \in RingMessages : call_msg_sendFor(b, data, INFINITE)
    \/ tsk_handler

SpecRing == InitRing /\ [][NextRing]_vars

\* The same buffer with msg_push, from a task or an interrupt handler, as the
\* only send that does not block.
NextPush ==
    \/ tsk_start("T1")
    \/ \E b \in Bufs, data \in PushMessages : call_msg_push(b, data)
    \/ \E b \in Bufs, size \in 1 .. RingSize : call_msg_waitFor(b, size, INFINITE)
    \/ \E b \in Bufs, data \in RingMessages : call_msg_sendFor(b, data, INFINITE)
    \/ tsk_handler

SpecPush == InitRing /\ [][NextPush]_vars

\* The tickless time base: the hardware timer counts and overflows, the
\* overflow interrupt is served, and port_sys_time is called from tasks, inside
\* and outside critical sections, and from interrupt handlers.
NextPort ==
    \/ hw_count
    \/ WTIMER0A_Handler_clear
    \/ WTIMER0A_Handler_tick
    \/ \E ctx \in {"locked", "task", "isr"} : port_sys_time_cnt(ctx)
    \/ port_sys_time_tck
    \/ port_sys_time_mis
    \/ port_sys_time_again

SpecPort == Init /\ [][NextPort]_vars

\* The same buffer with every call that stores or discards messages:
\* msg_give, msg_push, the blocking send and receive, and msg_kill.
NextBuf ==
    \/ tsk_start("T1")
    \/ \E b \in Bufs, data \in RingMessages : call_msg_give(b, data)
    \/ \E b \in Bufs, data \in RingMessages : call_msg_push(b, data)
    \/ \E b \in Bufs, size \in 1 .. RingSize : call_msg_waitFor(b, size, INFINITE)
    \/ \E b \in Bufs, data \in RingMessages : call_msg_sendFor(b, data, INFINITE)
    \/ \E b \in Bufs : call_msg_kill(b)
    \/ tsk_handler

SpecBuf == InitRing /\ [][NextBuf]_vars

\* The message buffer under the clock: MAIN and T1 send and receive one-byte
\* messages on a buffer with room for one, block with a deadline of one tick,
\* are served or timed out, and kill the buffer.
NextClk ==
    \/ tsk_start("T1")
    \/ \E b \in Bufs, size \in 1 .. MaxSize : call_msg_waitFor(b, size, 1)
    \/ \E b \in Bufs, data \in Messages : call_msg_sendFor(b, data, 1)
    \/ \E b \in Bufs : call_msg_kill(b)
    \/ tmr_handler
    \/ tsk_handler
    \/ Tick

SpecClk == Init /\ [][NextClk]_vars

\* The receiving side of the same buffer: messages of two lengths are given,
\* and MAIN and T1 receive with buffers of two sizes, without blocking, with
\* every kind of delay and until a time; the clock stands still.
NextRecv ==
    \/ tsk_start("T1")
    \/ \E b \in Bufs, data \in RingMessages : call_msg_give(b, data)
    \/ \E b \in Bufs, size \in 1 .. RingSize : call_msg_take(b, size)
    \/ \E b \in Bufs, size \in 1 .. RingSize, d \in {IMMEDIATE, 1, INFINITE} :
          call_msg_waitFor(b, size, d)
    \/ \E b \in Bufs, size \in 1 .. RingSize, d \in {IMMEDIATE, 1, INFINITE} :
          call_msg_waitUntil(b, size, U(Counter + d))
    \/ tsk_handler

SpecRecv == InitRing /\ [][NextRecv]_vars

\* The kernel heap: MAIN allocates blocks and creates message buffers until
\* the heap is exhausted.
NextHeap ==
    \/ \E size \in 0 .. MaxAlloc : call_sys_alloc(size)
    \/ \E limit \in 1 .. MaxLimit : call_msg_create(limit)

SpecHeap == Init /\ [][NextHeap]_vars

\* The expiry test alone: a timer is at the head of the delayed list with any
\* start and delay, at any value of Counter, in either build.
InitExp ==
    /\ id = [n \in Tasks \cup Timers \cup {IDLE} |->
             CASE n = MAIN -> ID_READY [] n = IDLE -> ID_IDLE [] n \in Timers -> ID_TIMER
               [] OTHER -> ID_STOPPED]
    /\ ready = <<MAIN>>
    /\ delayed = <<"TMR">>
    /\ waiters = [o \in Objs |-> << >>]
    /\ guard = [t \in Tasks |-> NULL]
    /\ basic = [t \in Tasks \cup {IDLE} |-> IF t \in UserTasks THEN 1 ELSE 0]
    /\ prio = basic
    /\ \E st, dl \in 0 .. Mod - 1 :
          /\ start = [n \in Tasks \cup Timers \cup {WAIT} |-> IF n \in Timers THEN st ELSE 0]
          /\ delay = [n \in Tasks \cup Timers \cup {WAIT} |->
                        IF n = WAIT THEN INFINITE ELSE IF n \in Timers THEN dl ELSE 0]
    /\ period = [n \in Timers |-> 0]
    /\ event = [t \in Tasks |-> E_SUCCESS]
    /\ held  = [t \in Tasks |-> << >>]
    /\ owner = [m \in Mutexes |-> NULL]
    /\ pending = FALSE
    /\ msg = [b \in Bufs |-> [count |-> 0, head |-> 0, tail |-> 0, limit |-> MaxLimit,
                              data |-> [i \in 0 .. MaxLimit - 1 |-> 0]]]
    /\ tmp = [t \in Tasks |-> NoTmp]
    /\ fault = FALSE
    /\ cur = MAIN
    /\ Counter \in 0 .. Mod - 1
    /\ robin \in BOOLEAN
    /\ inwait = {}
    /\ ret = NoRet
    /\ call = [name |-> "none", data |-> << >>, size |-> 0]
    /\ heap = Heap
    /\ port = PortReset
    /\ fired = [t \in Timers |-> 0]
    /\ wakes = [t \in Tasks |-> 0]
    /\ woken = << >>
    /\ arrive = << >>
    /\ placed = << >>
    /\ wrapped = FALSE

NextExp == tmr_expired

SpecExp == InitExp /\ [][NextExp]_vars

\* Timers: a one-shot or periodic timer runs beside the timed waits of MAIN
\* on S and its waits on the timer itself.
NextTmr ==
    \/ \E tmr \in Timers, d \in (1 .. MaxDelay) \cup {LongDelay}, p \in 0 .. MaxDelay :
          tmr_start(tmr, d, p)
    \/ \E d \in Delays : wait_for("S", d)
    \/ \E tmr \in Timers : wait_for(tmr, INFINITE)
    \/ wake_one("S")
    \/ tsk_break
    \/ SysTick_Handler
    \/ tmr_handler
    \/ tsk_handler
    \/ Tick

SpecTmr == Init /\ [][NextTmr]_vars

(* ------------------------------------------------------------------------ *)
(* Properties                                                               *)
(* ------------------------------------------------------------------------ *)

\* position of x in seq
Pos(seq, x) == CHOOSE i \in 1 .. Len(seq) : seq[i] = x

Before(seq, a, b) == Pos(seq, a) < Pos(seq, b)

\* the tasks woken from a queue in this step leave it in the order `hist`
\* breaks ties by: each one has no waiter of higher priority left in its
\* queue, and no waiter of its own priority that precedes it in hist
WakeOrder(hist) ==
    \A i \in 1 .. Len(woken') :
        LET t    == woken'[i]
            rest == Range(waiters[guard[t]]) \ {woken'[k] : k \in 1 .. i}
        IN  event'[t] # E_TIMEOUT =>
                \A u \in rest : \/ prio[u] < prio[t]
                                \/ prio[u] = prio[t] /\ Before(hist, t, u)

\* C1 (as claimed): every wake_one / wake_all wakes the waiters of an object
\* highest effective priority first and, among waiters of equal priority, the
\* one that started waiting first.
C1_WakeOrderByWaitStart == [][WakeOrder(arrive)]_vars

\* C1 (as amended): every wake_one / wake_all wakes the waiters of an object
\* highest effective priority first and, among waiters of equal priority, the
\* one that was placed in the queue first, a waiter being placed when it
\* starts to wait and again whenever core_tsk_prio changes its priority.
C1_WakeOrderByPlacement == [][WakeOrder(placed)]_vars

\* a wake has just decided a tie: a waiter of the woken task's priority is
\* still in the queue the task was taken from
C1_TieDecided ==
    /\ woken # << >>
    /\ \E u \in Range(waiters[guard[woken[1]]]) : prio[u] = prio[woken[1]]

\* C2: the ready list read from the task after IDLE is priority-descending
\* (and ends in IDLE, the task of priority 0 that closes the list).
C2_ReadySorted ==
    /\ \A i, j \in 1 .. Len(ready) : i < j => prio[ready[i]] >= prio[ready[j]]
    /\ \A i \in 1 .. Len(ready) : ready[i] # IDLE /\ prio[ready[i]] >= prio[IDLE]

\* a task whose priority has been raised is in the ready list behind nothing
\* of lower priority, with a task of lower priority behind it
C2_RaisedInReady ==
    \E i, j \in 1 .. Len(ready) :
        i < j /\ prio[ready[i]] # basic[ready[i]] /\ prio[ready[i]] > prio[ready[j]]

\* every waiters list is priority-descending, ties in the order of `hist`,
\* and every waiter's guard is the object
WaitersSorted(hist) ==
    \A o \in Objs :
        /\ \A i \in 1 .. Len(waiters[o]) : guard[waiters[o][i]] = o
        /\ \A i, j \in 1 .. Len(waiters[o]) :
               i < j => \/ prio[waiters[o][i]] > prio[waiters[o][j]]
                        \/ /\ prio[waiters[o][i]] = prio[waiters[o][j]]
                           /\ Before(hist, waiters[o][i], waiters[o][j])

\* C3 (as claimed): every waiters list is priority-descending with the
\* waiters of equal priority in the order in which they started to wait, and
\* every waiter's guard points back to the object.
C3_WaitersByWaitStart == WaitersSorted(arrive)

\* C3 (as amended): every waiters list is priority-descending with the
\* waiters of equal priority in the order of their last placement (start of
\* the wait, or the last change of priority by core_tsk_prio), and every
\* waiter's guard points back to the object.
C3_WaitersByPlacement == WaitersSorted(placed)

\* a task whose priority core_tsk_prio has changed waits in a list with others
C3_RaisedInWaiters ==
    \E o \in Objs : \E t \in Range(waiters[o]) :
        prio[t] # basic[t] /\ Len(waiters[o]) > 1

\* C4: after every scheduler pass the current task is the first task after
\* IDLE in the ready list (IDLE when the list is empty) and no ready task has
\* a higher effective priority; a task becomes current in no other way, so a
\* task of lower priority is not made current while one of higher priority
\* is ready.
C4_SchedulerPick ==
    [][(pending /\ ~pending') \/ cur' # cur =>
          /\ cur' = IF ready' = << >> THEN IDLE ELSE ready'[1]
          /\ \A t \in Range(ready') : prio'[t] <= prio'[cur']]_vars

\* T2 (priority 3) and T1 (priority 1) have both been woken from S; T2 is
\* current and T1 is ready
C4_HighRuns ==
    /\ cur = "T2" /\ ~pending /\ prio["T2"] = 3 /\ prio["T1"] = 1
    /\ "T1" \in Range(ready)
    /\ guard["T1"] = "S" /\ guard["T2"] = "S"
    /\ wakes["T1"] = 1 /\ wakes["T2"] = 1

Max(S) == CHOOSE x \in S : \A y \in S : y <= x

\* max(t.basic, the priorities of the first waiters of the mutexes t holds)
EffPrio(t) ==
    Max({basic[t]} \cup {prio[waiters[m][1]] : m \in {x \in Range(held[t]) : waiters[x] # << >>}})

\* C9: for every task t, t.prio equals max(t.basic, max of head(m.waiters).prio
\* over the mutexes m in t's held list that have waiters).
C9_EffectivePriority == \A t \in Tasks : prio[t] = EffPrio(t)

\* T2, of priority 3, waits for mutex m, which T1, of basic priority 1, owns
HighWaitsForLow(m) ==
    basic["T2"] = 3 /\ owner[m] = "T1" /\ "T2" \in Range(waiters[m])

\* T2, of priority 3, has been given mutex m and has not run since
HandedToHigh(m) ==
    /\ basic["T2"] = 3 /\ owner[m] = "T2" /\ guard["T2"] = m
    /\ id["T2"] = ID_READY /\ "T2" \in inwait

\* while T2 waits for T1's mutex T1 has priority 3; the step in which T1 gives
\* the mutex up hands it to T2, wakes T2 with E_SUCCESS and returns T1 to its
\* basic priority
InheritUntilUnlock ==
    /\ [](\A m \in Mutexes : HighWaitsForLow(m) => prio["T1"] = 3)
    /\ [][\A m \in Mutexes :
            HighWaitsForLow(m) /\ owner'[m] # "T1" =>
                /\ owner'[m] = "T2" /\ prio'["T1"] = basic["T1"]
                /\ id'["T2"] = ID_READY /\ event'["T2"] = E_SUCCESS]_vars

\* in the builds selected by `build`: from the unlock on a context switch is
\* pending with T2 first in the ready list, so that no task runs before the
\* scheduler pass, which makes T2 current
SwitchPending(build) ==
    \A m \in Mutexes : build /\ HandedToHigh(m) => pending /\ ReadyHead(K) = "T2"

HighPicked(build) ==
    \A m \in Mutexes : build /\ HandedToHigh(m) /\ ~pending' => cur' = "T2"

\* C10 (as claimed): if T_low (basic priority 1) owns mutex M and T_high
\* (priority 3) blocks in lock(M), T_low's effective priority is 3 until it
\* unlocks M; at the unlock its priority returns to 1, M passes to T_high and
\* T_high becomes current at the next scheduler pass, before T_low runs again.
C10_InheritAndPreempt ==
    InheritUntilUnlock /\ [](SwitchPending(TRUE)) /\ [][HighPicked(TRUE)]_vars

\* C10 (as amended): the same, where T_high becomes current before T_low runs
\* again in the builds with OS_ROBIN /= 0 (in the cooperative build the
\* unlock requests no context switch and T_low runs on until it yields).
C10_InheritAndPreemptRobin ==
    InheritUntilUnlock /\ [](SwitchPending(robin)) /\ [][HighPicked(robin)]_vars

\* T1 has just unlocked the mutex T2 was waiting for: T1 is back at priority
\* 1, is still the current task and is about to be switched out
C10_Unlocked ==
    /\ robin /\ pending /\ cur = "T1" /\ prio["T1"] = 1
    /\ \E m \in Mutexes : HandedToHigh(m)

\* ticks since the wait of t began
Elapsed(t) == U(Counter + Mod - start[t])

\* the timer handler runs in this step: as the timer interrupt, or at the
\* head of the scheduler pass in the cooperative build
TimerRuns == tmr_handler \/ (~robin /\ tsk_handler)

\* a timeout is delivered by the timer handler alone and not before the
\* deadline; the task then is in the ready list and in no other list, and it
\* has been woken once since it suspended
TimeoutDelivery ==
    \A t \in Tasks :
        id[t] = ID_DELAYED /\ id'[t] # ID_DELAYED /\ event'[t] = E_TIMEOUT =>
            /\ TimerRuns
            /\ delay[t] # INFINITE /\ delay[t] <= Elapsed(t)
            /\ id'[t] = ID_READY /\ t \in Range(ready') /\ t \notin Range(delayed')
            /\ \A o \in Objs : t \notin Range(waiters'[o])
            /\ wakes'[t] = 1

\* no waiting task is left whose deadline has been reached (the state in
\* which the timer handler leaves the delayed list)
NoneOverdue ==
    \A t \in Tasks : id[t] = ID_DELAYED /\ delay[t] # INFINITE => delay[t] > Elapsed(t)

C7_ImmediateWait ==
    [][\A o \in Sems :
         wait_for(o, IMMEDIATE) \/ wait_until(o, Counter) =>
            /\ ret' = Ret(cur, E_TIMEOUT) /\ cur' = cur /\ inwait' = inwait
            /\ id'[cur] = ID_READY /\ ready' = ready /\ ~pending'
            /\ waiters' = waiters /\ delayed' = delayed]_vars

\* the current task has polled while another task waits on the object
C7_Polled ==
    /\ ret = Ret(cur, E_TIMEOUT) /\ delay[cur] = IMMEDIATE /\ start[cur] = Counter
    /\ id[cur] = ID_READY /\ waiters["S"] # << >> /\ delayed # << >>

\* a task is woken at most once per wait, and a task that has been woken and
\* not yet resumed has been woken once, with a documented code
WokenOnce ==
    \A t \in Tasks :
        /\ wakes[t] <= 1
        /\ t \in inwait /\ id[t] = ID_READY =>
               wakes[t] = 1 /\ event[t] \in {E_SUCCESS, E_TIMEOUT, E_STOPPED}

KilledAll(o) ==
    LET W == Range(waiters[o])
    IN  /\ waiters'[o] = << >>
        /\ Range(woken') = W /\ Len(woken') = Cardinality(W)
        /\ \A t \in W : /\ event'[t] = E_STOPPED /\ wakes'[t] = 1
                        /\ id'[t] = ID_READY /\ t \in Range(ready')
                        /\ t \notin Range(delayed')

\* C8: msg_kill wakes every task that is waiting on the message buffer at
\* that moment with E_STOPPED, each exactly once: afterwards the waiters list
\* is empty, those tasks are in the ready list and no longer in the delayed
\* list, and count, head and tail of the buffer are 0.
C8_KillWakesAll ==
    [][\A b \in Bufs :
         call_msg_kill(b) =>
            /\ KilledAll(b)
            /\ msg'[b].count = 0 /\ msg'[b].head = 0 /\ msg'[b].tail = 0]_vars

\* a kill has just woken two senders that were blocked on a buffer holding a
\* message
C8_Killed ==
    /\ Len(woken) = 2 /\ ~fault
    /\ \A k \in 1 .. 2 :
          /\ event[woken[k]] = E_STOPPED /\ guard[woken[k]] \in Bufs
          /\ tmp[woken[k]].size > 0 /\ tmp[woken[k]].data # << >>
    /\ \A b \in Bufs : msg[b].count = 0 /\ msg[b].head = 0 /\ msg[b].tail = 0
                       /\ \E i \in DOMAIN msg[b].data : msg[b].data[i] # 0

\* C11: if T1 (priority 1) holds a mutex m1 and is blocked acquiring a mutex
\* m2 held by MAIN (basic priority 0), and T2 (priority 3) is blocked in
\* lock(m1), then the effective priorities are T1 = 3 and MAIN = 3: the raise
\* of a waiting task is propagated to the owner of the mutex it waits on.
C11_TransitiveInheritance ==
    \A m1, m2 \in Mutexes :
        /\ basic["T2"] = 3 /\ owner[m1] = "T1" /\ "T2" \in Range(waiters[m1])
        /\ owner[m2] = MAIN /\ "T1" \in Range(waiters[m2])
        => prio["T1"] = 3 /\ prio[MAIN] = 3

\* number of times x occurs in seq
Count(seq, x) == Cardinality({i \in 1 .. Len(seq) : seq[i] = x})

\* C12: a task is in at most one of the ready list and the delayed list, once,
\* and in the waiters list of at most one object, once; it is never in the
\* ready list while it is in a waiters list or in the delayed list.
C12_ListsDisjoint ==
    \A t \in Tasks :
        /\ Count(ready, t) + Count(delayed, t) <= 1
        /\ Cardinality({o \in Objs : t \in Range(waiters[o])}) <= 1
        /\ \A o \in Objs : Count(waiters[o], t) <= 1
        /\ t \in Range(ready) => \A o \in Objs : t \notin Range(waiters[o])

\* a task has just been woken and is ready, while another task still waits:
\* in a waiters list and in the delayed list
C12_WokenAndWaiting ==
    /\ woken # << >> /\ woken[1] \in Range(ready)
    /\ \E u \in Tasks, o \in Objs : u \in Range(waiters[o]) /\ u \in Range(delayed)

\* time left to the deadline of a delayed entry, negative once it is overdue
Remaining(e) == delay[e] - Elapsed(e)

\* the delayed list is ascending in wake-time, entries without a deadline last
DelayedSorted ==
    \A i, j \in 1 .. Len(delayed) :
        i < j =>
            /\ delay[delayed[i]] = INFINITE => delay[delayed[j]] = INFINITE
            /\ delay[delayed[j]] # INFINITE => Remaining(delayed[i]) <= Remaining(delayed[j])

NoneExpired ==
    \A e \in Range(delayed) : delay[e] # INFINITE => delay[e] > Elapsed(e)

Expiring(t) == id[t] = ID_DELAYED /\ delay[t] # INFINITE /\ delay[t] <= Elapsed(t)

\* the task is in the ready list alone, woken once with event ev
WokenWith(t, ev) ==
    /\ event'[t] = ev /\ id'[t] = ID_READY /\ wakes'[t] = 1
    /\ t \notin Range(delayed') /\ \A o \in Objs : t \notin Range(waiters'[o])

\* C15: when a give and the expiry of a timeout compete for a waiting task,
\* the one that runs first decides: after the give the task has the giver's
\* event and is not in the delayed list; after the handler it has E_TIMEOUT
\* and is not in a waiters list; it has been woken once, and the event stays
\* as it is until the task resumes and returns it.
C15_TieResolvedOnce ==
    [][\A t \in Tasks :
         /\ \A o \in Sems :
              Expiring(t) /\ QueueHead(K, o) = t /\ wake_one(o) => WokenWith(t, E_SUCCESS)
         /\ Expiring(t) /\ TimerRuns /\ id'[t] # ID_DELAYED => WokenWith(t, E_TIMEOUT)
         /\ t \in inwait /\ id[t] = ID_READY =>
              /\ wakes'[t] = 1 /\ event'[t] = event[t]
              /\ t \notin inwait' => ret' = Ret(t, event[t])]_vars

\* a give has woken a task whose deadline had been reached, while another
\* task still waits on the object
C15_GiveWonTie ==
    \E t \in Tasks :
        /\ woken = <<t>> /\ event[t] = E_SUCCESS /\ id[t] = ID_READY /\ t \in inwait
        /\ delay[t] # INFINITE /\ delay[t] <= Elapsed(t)
        /\ waiters["S"] # << >>

\* the predicate of the specification: the deadline of e is reached
DeadlineReached(e) == delay[e] # INFINITE /\ delay[e] <= U(Counter + Mod - start[e])

\* C16: priv_tmr_expired, in both build variants, finds an entry expired
\* exactly when its delay is not INFINITE and delay <= Counter - start in the
\* arithmetic of the counter, for every start, delay and Counter; an entry
\* with delay INFINITE never expires.
C16_ExpiredPredicate ==
    \A tmr \in Timers : ret.tsk = tmr => ret.val = DeadlineReached(tmr)

\* C17: a run of the handler that finds a timer expired at the head of the
\* delayed list serves it; for each expiry it serves, the handler advances
\* start by the delay, sets delay to the period and calls the callback once;
\* every task that waited on the timer is ready with E_SUCCESS; a periodic
\* timer is in the delayed list again with id ID_TIMER, a one-shot timer is
\* not in the delayed list.
C17_TimerExpiry ==
    [][\A tmr \in Timers :
         /\ TimerRuns /\ DelayedHead(K) = tmr /\ priv_tmr_expired(K, tmr, Counter)
               => fired'[tmr] >= 1
         /\ TimerRuns /\ fired'[tmr] >= 1 =>
               /\ start'[tmr] = U(start[tmr] + delay[tmr] + (fired'[tmr] - 1) * period[tmr])
               /\ delay'[tmr] = period[tmr] /\ period'[tmr] = period[tmr]
               /\ fired'[tmr] > 1 => period[tmr] > 0
               /\ waiters'[tmr] = << >>
               /\ \A t \in Range(waiters[tmr]) :
                     id'[t] = ID_READY /\ event'[t] = E_SUCCESS /\ t \in Range(ready')
               /\ period[tmr] > 0 => tmr \in Range(delayed') /\ id'[tmr] = ID_TIMER
               /\ period[tmr] = 0 => tmr \notin Range(delayed') /\ id'[tmr] # ID_TIMER]_vars

\* a periodic timer has expired once and is in the list again; the task that
\* waited on it has been woken
C17_PeriodicFired ==
    \E tmr \in Timers :
        /\ fired[tmr] = 1 /\ period[tmr] > 0 /\ delayed = <<tmr>> /\ id[tmr] = ID_TIMER
        /\ woken = <<MAIN>> /\ event[MAIN] = E_SUCCESS /\ guard[MAIN] = tmr

\* C18: when a message of n bytes is sent with msg_give while a task is
\* blocked in a receive of capacity c >= n on the empty buffer, the receiver
\* is woken with E_SUCCESS, with the n bytes in its buffer; the buffer is
\* empty afterwards and msg_give returns n; the receive returns n when the
\* receiver resumes.
C18_Rendezvous ==
    [][\A b \in Bufs, t \in Tasks :
         /\ \A data \in RingMessages :
              /\ msg[b].count = 0 /\ QueueHead(K, b) = t /\ Len(data) <= tmp[t].size
              /\ call_msg_give(b, data)
              => /\ ~fault'
                 /\ WokenWith(t, E_SUCCESS)
                 /\ tmp'[t].req - tmp'[t].size = Len(data) /\ tmp'[t].data = data
                 /\ msg'[b].count = 0
                 /\ ret'.val = Len(data)
         /\ t \in inwait /\ guard[t] = b /\ id[t] = ID_READY /\ event[t] = E_SUCCESS
              => /\ tmp'[t] = tmp[t]
                 /\ tsk_handler /\ cur' = t =>
                       ret' = RetLen(t, tmp[t].req - tmp[t].size, tmp[t].data)]_vars

\* the messages framed in n bytes of the ring from index i on, oldest first;
\* bytes that are no frame {length prefix, payload} read as "corrupt"
RECURSIVE StoredFrom(_, _, _)
StoredFrom(m, i, n) ==
    IF n = 0 THEN << >>
    ELSE IF n < SizeofUnsigned THEN <<"corrupt">>
    ELSE LET len == Dec(msg_read(m, i, SizeofUnsigned))
             j   == msg_index(m, i, SizeofUnsigned)
         IN  IF len = 0 \/ len > n - SizeofUnsigned THEN <<"corrupt">>
             ELSE <<msg_read(m, j, len)>>
                    \o StoredFrom(m, msg_index(m, j, len), n - SizeofUnsigned - len)

\* the messages the buffer stores
Stored(m) == IF m.count \in 0 .. m.limit THEN StoredFrom(m, m.head, m.count)
                                         ELSE <<"corrupt">>

\* the tasks this step has woken with E_SUCCESS, in the order of their wake-up
Served == SelectSeq(woken', LAMBDA t : event'[t] = E_SUCCESS)

\* the messages of the blocked senders this step has served (they are stored
\* by the waker) and those handed to the blocked receivers it has served
SentByServed     == [i \in 1 .. Len(Served) |-> tmp[Served[i]].data]
ReceivedByServed == [i \in 1 .. Len(Served) |-> tmp'[Served[i]].data]

\* C19: every send and receive that completes keeps the messages in order and
\* whole: the messages stored before a send followed by the message it
\* accepts are the messages it hands to blocked receivers followed by the
\* messages stored after it; the messages stored before a receive followed by
\* the messages of the blocked senders it serves are the message it returns
\* followed by the messages stored after it; a receive returns the length of
\* the message it delivers; other steps leave the buffer as it is, and a task
\* that resumes returns the message it was handed.
C19_MessagesInOrder ==
    [][~fault' =>
         \A b \in Bufs :
            /\ call'.name \in {"give", "send"} =>
                  Stored(msg[b])
                     \o (IF ret'.tsk # NULL /\ ret'.val = call'.size THEN <<call'.data>>
                                                                     ELSE << >>)
                     = ReceivedByServed \o Stored(msg'[b])
            /\ call'.name \in {"take", "wait"} =>
                  /\ Stored(msg[b]) \o SentByServed
                        = (IF ret'.tsk # NULL /\ ret'.val > 0 THEN <<ret'.data>> ELSE << >>)
                             \o Stored(msg'[b])
                  /\ ret'.tsk # NULL => ret'.val = Len(ret'.data) /\ ret'.val <= call'.size
            /\ call'.name = "none" =>
                  /\ msg'[b] = msg[b]
                  /\ \A t \in inwait \ inwait' :
                        guard[t] = b /\ event[t] = E_SUCCESS =>
                           /\ tmp[t].req - tmp[t].size = Len(tmp[t].data)
                           /\ ret' = RetLen(t, Len(tmp[t].data), tmp[t].data)]_vars

\* a receive has returned the older of two stored messages; the younger one
\* ends at the end of the data area, where the tail index has wrapped
C19_OldestDelivered ==
    /\ ret.tsk # NULL /\ ret.val = RingSize /\ Len(ret.data) = RingSize
    /\ Len(Stored(msg["B"])) = 1 /\ Stored(msg["B"])[1] # ret.data
    /\ msg["B"].tail < msg["B"].head

\* C20: a receive that leaves room for the message of the sender blocked at
\* the head of the waiters list - limit - count >= sizeof(unsigned) + n once
\* the received message is removed - completes that sender, whether or not
\* other messages are still stored: the message is stored behind them and the
\* sender is woken with E_SUCCESS, its call returning n.
C20_SenderCompleted ==
    [][\A b \in Bufs, t \in Tasks :
         /\ call'.name \in {"take", "wait"} /\ ret'.tsk # NULL /\ ret'.val > 0
         /\ QueueHead(K, b) = t
         /\ msg[b].limit - (msg[b].count - SizeofUnsigned - ret'.val)
               >= SizeofUnsigned + tmp[t].size
         => /\ WokenWith(t, E_SUCCESS)
            /\ tmp'[t].size = 0
            /\ Stored(msg'[b]) # << >>
            /\ Stored(msg'[b])[Len(Stored(msg'[b]))] = tmp[t].data]_vars

\* C21: a send that finds a receiver blocked on the empty buffer writes no
\* byte to the data array of the buffer: the payload goes from the sender's
\* buffer to the receiver's.
C21_NoInternalCopy ==
    [][\A b \in Bufs, t \in Tasks :
         /\ call'.name \in {"give", "send"} /\ ~fault'
         /\ msg[b].count = 0 /\ waiters[b] = <<t>> /\ call'.size <= tmp[t].size
         => msg'[b].data = msg[b].data]_vars

\* C22: when the heap cannot satisfy a request, core_sys_alloc returns null
\* and leaves the heap pointer where it is, and msg_create returns null to its
\* caller and no assertion fails.
C22_CreateReturnsNull ==
    [][/\ \A size \in 1 .. MaxAlloc :
            heap + ASIZE(size) > HeapEnd /\ call_sys_alloc(size) =>
               ret' = Ret(cur, 0) /\ heap' = heap /\ ~fault'
       /\ \A limit \in 1 .. MaxLimit :
            heap + ASIZE(SizeofMsg + limit) > HeapEnd /\ call_msg_create(limit) =>
               ret' = Ret(cur, 0) /\ heap' = heap /\ ~fault']_vars

\* C23: a kill of a message buffer in the state a kill leaves it in - no
\* waiters, count, head and tail 0 - changes nothing: the buffer, the ready
\* list, the delayed list, the waiters lists, every task's event, state and
\* priority and the pending context switch are as before.
C23_KillIdempotent ==
    [][\A b \in Bufs :
         /\ call'.name = "kill"
         /\ waiters[b] = << >>
         /\ msg[b].count = 0 /\ msg[b].head = 0 /\ msg[b].tail = 0
         => /\ msg' = msg /\ ready' = ready /\ delayed' = delayed /\ waiters' = waiters
            /\ event' = event /\ id' = id /\ prio' = prio /\ guard' = guard
            /\ tmp' = tmp /\ pending' = pending /\ cur' = cur /\ ~fault']_vars

\* a kill has run on a buffer that an earlier kill had emptied: it has woken
\* no task, and the task the earlier kill stopped has not resumed yet
C23_KilledTwice ==
    /\ call.name = "kill" /\ woken = << >> /\ waiters["B"] = << >>
    /\ msg["B"].count = 0 /\ msg["B"].head = 0 /\ msg["B"].tail = 0
    /\ \E i \in DOMAIN msg["B"].data : msg["B"].data[i] # 0
    /\ \E t \in inwait : event[t] = E_STOPPED /\ guard[t] = "B" /\ id[t] = ID_READY

\* the step puts the task t, and no other task, into the ready list
Entered(t) ==
    /\ t \notin Range(ready)
    /\ t \in Range(ready')
    /\ ready = Without(ready', t)

\* C24 (as the code has it): a task put into the ready list stands behind
\* neighbours of greater or equal priority only, and immediately before the
\* first neighbour of strictly lower priority (IDLE when there is none).
C24_InsertBeforeLower ==
    [][\A t \in Tasks :
         Entered(t) =>
           LET pos == Pos(ready', t)
           IN  /\ \A j \in 1 .. pos - 1 : prio'[ready'[j]] >= prio'[t]
               /\ pos < Len(ready') => prio'[ready'[pos + 1]] < prio'[t]]_vars

\* C24 (as stated): the walk passes neighbours of strictly greater priority
\* only, and the task stands immediately before the first neighbour of equal
\* or lower priority.
C24_InsertBeforeEqual ==
    [][\A t \in Tasks :
         Entered(t) =>
           LET pos == Pos(ready', t)
           IN  /\ \A j \in 1 .. pos - 1 : prio'[ready'[j]] > prio'[t]
               /\ pos < Len(ready') => prio'[ready'[pos + 1]] <= prio'[t]]_vars

\* a woken task stands in the ready list between a task of its own priority
\* and a task of lower priority
C24_InsertedBetween ==
    /\ Len(woken) = 1
    /\ \E i \in 2 .. Len(ready) - 1 :
         /\ ready[i] = woken[1]
         /\ prio[ready[i - 1]] = prio[ready[i]]
         /\ prio[ready[i + 1]] < prio[ready[i]]

\* C25: a task that a step puts into the ready list stands behind every task
\* of the same priority that was in the list before the step (FIFO among
\* equal priorities: the list is dispatched from its head).
C25_ReadyFifo ==
    [][\A t, u \in Tasks :
         /\ t \notin Range(ready) /\ t \in Range(ready')
         /\ u \in Range(ready) /\ u \in Range(ready')
         /\ prio'[u] = prio'[t]
         => Pos(ready', u) < Pos(ready', t)]_vars

\* the task woken last is the last of the ready list, behind the current
\* task, which has its priority and was ready before it
C25_WokenBehindPeer ==
    /\ Len(woken) = 1 /\ Len(ready) >= 2
    /\ ready[Len(ready)] = woken[1]
    /\ ready[Len(ready) - 1] = cur
    /\ prio[cur] = prio[woken[1]]

\* C26: a scheduler pass (the step that serves the pending context switch)
\* takes a current task that is READY out of the ready list and puts it back
\* behind every ready task of its priority, the other tasks keeping their
\* order, so that a ready task of the same or a higher priority becomes
\* current in its place; a current task that is not READY is not put into
\* the ready list, which the pass leaves as it is, and another task (IDLE when
\* none is ready) becomes current.
C26_RoundRobin ==
    [][pending /\ ~pending' =>
         /\ id[cur] = ID_READY =>
              /\ cur \in Range(ready') /\ id'[cur] = ID_READY
              /\ Without(ready', cur) = Without(ready, cur)
              /\ \A u \in Range(ready') \ {cur} :
                    prio'[u] = prio'[cur] => Pos(ready', u) < Pos(ready', cur)
              /\ (\E u \in Range(ready) \ {cur} : prio[u] >= prio[cur]) => cur' # cur
         /\ id[cur] # ID_READY =>
              /\ cur \notin Range(ready')
              /\ ready' = ready /\ id'[cur] = id[cur]
              /\ cur # IDLE => cur' # cur]_vars

\* T2 is current and T1, of the same priority, is ready right behind it; T1
\* has been woken and has run since, so it is not where its wake-up put it:
\* it has lost the processor while READY
C26_TookTurns ==
    /\ cur = "T2" /\ ~pending
    /\ Len(ready) >= 2 /\ ready[1] = "T2" /\ ready[2] = "T1"
    /\ prio["T1"] = prio["T2"]
    /\ wakes["T1"] >= 1 /\ wakes["T2"] >= 1
    /\ "T1" \notin inwait /\ "T2" \notin inwait

\* C27: wake_one on an object with waiters takes the first waiter, and no
\* other, out of the object's waiters list, gives it the event of the call,
\* takes it out of the delayed list and puts it into the ready list as READY;
\* the other waiters, the rest of the delayed list and the rest of the ready
\* list keep their order and every other task its event.  On an object
\* without waiters it changes no list, no state and no event.
C27_WakeOne ==
    [][\A o \in Sems :
         wake_one(o) =>
           IF waiters[o] = << >>
           THEN /\ waiters' = waiters /\ ready' = ready /\ delayed' = delayed
                /\ id' = id /\ event' = event /\ pending' = pending
           ELSE LET t == waiters[o][1]
                IN  /\ waiters' = [waiters EXCEPT ![o] = Tail(@)]
                    /\ event' = [event EXCEPT ![t] = E_SUCCESS]
                    /\ t \in Range(delayed) /\ delayed' = Without(delayed, t)
                    /\ t \in Range(ready') /\ Without(ready', t) = ready
                    /\ id' = [id EXCEPT ![t] = ID_READY]]_vars

\* the first of two waiters of S has been woken with E_SUCCESS and is ready;
\* the second still waits, in the waiters list and in the delayed list
C27_HeadWoken ==
    /\ woken # << >> /\ Len(woken) = 1
    /\ guard[woken[1]] = "S" /\ event[woken[1]] = E_SUCCESS
    /\ woken[1] \in Range(ready) /\ woken[1] \notin Range(delayed)
    /\ waiters["S"] # << >>
    /\ \E u \in Range(waiters["S"]) : u \in Range(delayed)

C29_WaitFor ==
    [][/\ \A o \in Sems, d \in Delays \ {IMMEDIATE} :
            wait_for(o, d) =>
              /\ start'[cur] = Counter /\ delay'[cur] = d
              /\ cur \in Range(waiters'[o]) /\ Without(waiters'[o], cur) = waiters[o]
              /\ cur \in Range(ready) /\ ready' = Without(ready, cur)
              /\ cur \in Range(delayed') /\ Without(delayed', cur) = delayed
              /\ id'[cur] = ID_DELAYED /\ pending'
              /\ ret' = NoRet /\ cur \in inwait'
       /\ \A t \in Tasks :
            /\ event'[t] # event[t] => t \in Range(woken') \/ id'[t] = ID_DELAYED
            /\ t \in inwait /\ t \notin inwait' =>
                  /\ cur' = t /\ wakes'[t] = 1
                  /\ ret' = Ret(t, event'[t])]_vars

\* the current task has just started a wait without a deadline on S: it is
\* DELAYED, in the waiters list and in the delayed list behind a task that
\* waits with a deadline, and the context switch is pending
C29_WaitingForever ==
    /\ id[cur] = ID_DELAYED /\ pending /\ cur \in inwait
    /\ start[cur] = Counter /\ delay[cur] = INFINITE
    /\ cur \in Range(waiters["S"]) /\ cur \notin Range(ready)
    /\ Len(delayed) = 2 /\ delayed[2] = cur /\ delay[delayed[1]] # INFINITE

\* bytes the messages of seq take in the ring: a length prefix and the payload
RECURSIVE FrameBytes(_)
FrameBytes(seq) ==
    IF seq = << >> THEN 0 ELSE SizeofUnsigned + Len(Head(seq)) + FrameBytes(Tail(seq))

\* the messages left of seq when the oldest are dropped, one at a time, until
\* a message of `size` bytes fits into `limit` bytes with them
RECURSIVE KeptFor(_, _, _)
KeptFor(seq, size, limit) ==
    IF seq = << >> \/ FrameBytes(seq) + SizeofUnsigned + size <= limit
    THEN seq
    ELSE KeptFor(Tail(seq), size, limit)

\* C30: msg_push returns 0 and changes nothing when the buffer holds messages
\* and tasks wait on it, when the size is 0 and when the size is greater than
\* limit - sizeof(unsigned).  Otherwise it returns the size and stores the
\* message: the oldest stored messages are dropped whole, one at a time, and
\* no more of them than it takes for the new message to fit; the messages
\* left are the youngest, in their order, and the new message is behind them
\* (or with the receiver that was blocked on the empty buffer).
C30_Push ==
    [][\A b \in Bufs :
         call'.name = "push" =>
           IF /\ msg[b].count = 0 \/ waiters[b] = << >>
              /\ call'.size > 0
              /\ call'.size <= msg[b].limit - SizeofUnsigned
           THEN ~fault' =>
                  /\ ret'.val = call'.size
                  /\ KeptFor(Stored(msg[b]), call'.size, msg[b].limit) \o <<call'.data>>
                        = ReceivedByServed \o Stored(msg'[b])
                  /\ call'.skipped
                        = FrameBytes(Stored(msg[b]))
                             - FrameBytes(KeptFor(Stored(msg[b]), call'.size, msg[b].limit))
           ELSE /\ ret'.val = 0 /\ ~fault'
                /\ msg' = msg /\ tmp' = tmp /\ waiters' = waiters
                /\ ready' = ready /\ delayed' = delayed /\ event' = event
                /\ id' = id /\ pending' = pending]_vars

\* a push into the full buffer has dropped the older of the two stored
\* messages and no more: the younger one and the new one are stored
C30_OldestDropped ==
    /\ call.name = "push" /\ ret.tsk # NULL /\ ret.val = call.size
    /\ call.before = RingLimit
    /\ call.skipped > 0 /\ call.skipped < call.before
    /\ Len(Stored(msg["B"])) = 2
    /\ Stored(msg["B"])[2] = call.data

\* C31: successive values returned by port_sys_time never decrease, however
\* the call is interleaved with the overflow of the hardware timer and with
\* the interrupt handler that clears the overflow flag and advances System.cnt.
C31_TimeMonotonic == port.prev <= port.read

\* C32: no assertion of the message buffer fails, whatever the sequence of
\* msg_give, msg_take, msg_waitFor, msg_sendFor, msg_push and msg_kill calls
\* and the number of blocked tasks: priv_msg_getSize is not called with
\* count = 0 and priv_msg_putUpdate not with a size above the free space.
C32_AssertionsHold == ~fault

\* C33: in every reachable state of a message buffer count <= limit,
\* head < limit, tail < limit, tail = (head + count) mod limit, and the count
\* bytes from head on are whole messages - a length prefix and that many bytes
\* of payload each - so that count is the sum of their sizes.
C33_RingInvariant ==
    \A b \in Bufs :
        /\ msg[b].count \in 0 .. msg[b].limit
        /\ msg[b].head \in 0 .. msg[b].limit - 1
        /\ msg[b].tail \in 0 .. msg[b].limit - 1
        /\ msg[b].tail = (msg[b].head + msg[b].count) % msg[b].limit
        /\ "corrupt" \notin Range(Stored(msg[b]))
        /\ FrameBytes(Stored(msg[b])) = msg[b].count

\* the buffer is full with two messages after a push has discarded one: head
\* and tail meet inside the data area
C33_FullAndWrapped ==
    /\ call.name = "push" /\ call.skipped > 0
    /\ msg["B"].count = msg["B"].limit
    /\ msg["B"].head = msg["B"].tail /\ msg["B"].head # 0
    /\ Len(Stored(msg["B"])) = 2

\* C34: while the buffer holds messages and tasks wait on it, msg_give and
\* msg_push return 0 and store nothing, and msg_sendFor with a message the
\* buffer can hold at all suspends its caller in the waiters list, behind
\* every waiter of equal or higher priority, and stores nothing, even if the
\* message would fit.  The blocked senders a receive serves are taken from
\* the head of the waiters list, in its order, and their messages are stored
\* in that order behind the messages already stored.
C34_NoOvertaking ==
    [][\A b \in Bufs :
         /\ msg[b].count # 0 /\ waiters[b] # << >> /\ call'.name \in {"give", "push"} =>
               /\ ret'.val = 0
               /\ msg' = msg /\ waiters' = waiters /\ woken' = << >>
         /\ /\ msg[b].count # 0 /\ waiters[b] # << >> /\ call'.name = "send"
            /\ call'.size <= msg[b].limit - SizeofUnsigned
            => /\ ret' = NoRet /\ msg' = msg /\ woken' = << >>
               /\ cur \in Range(waiters'[b]) /\ Without(waiters'[b], cur) = waiters[b]
               /\ \A u \in Range(waiters[b]) :
                     prio[u] >= prio[cur] => Pos(waiters'[b], u) < Pos(waiters'[b], cur)
         /\ call'.name \in {"take", "wait"} /\ ~fault' /\ Served # << >> =>
               /\ Served = SubSeq(waiters[b], 1, Len(Served))
               /\ Len(Stored(msg'[b])) >= Len(Served)
               /\ SentByServed = SubSeq(Stored(msg'[b]),
                                        Len(Stored(msg'[b])) - Len(Served) + 1,
                                        Len(Stored(msg'[b])))]_vars

\* msg_give has returned 0 although its message would fit: a message is
\* stored and a sender is blocked
C34_GiveRefused ==
    /\ call.name = "give" /\ ret.tsk # NULL /\ ret.val = 0
    /\ msg["B"].count # 0 /\ waiters["B"] # << >>
    /\ msg["B"].limit - msg["B"].count >= SizeofUnsigned + call.size

\* C35: core_tsk_waitUntil with a time that is k >= 1 ticks before Counter
\* does not return at once: the caller is suspended with start = Counter and
\* delay = 2^CntBits - k (which is INFINITE for k = 1) - in the waiters list,
\* in the delayed list, a context switch pending - and a timeout wakes a task
\* only if its delay is not INFINITE and, counted from its start, that many
\* ticks have passed.
C35_WaitUntilPast ==
    [][/\ \A o \in Sems, k \in 1 .. Mod - 1 :
            wait_until(o, U(Counter + Mod - k)) =>
              /\ ret' = NoRet /\ cur \in inwait'
              /\ start'[cur] = Counter /\ delay'[cur] = Mod - k
              /\ id'[cur] = ID_DELAYED /\ pending'
              /\ cur \in Range(waiters'[o]) /\ cur \in Range(delayed')
              /\ cur \notin Range(ready')
       /\ \A t \in Tasks :
            t \in Range(woken') /\ event'[t] = E_TIMEOUT /\ TimerRuns =>
              /\ delay[t] # INFINITE
              /\ U(Counter' + Mod - start[t]) >= delay[t]]_vars

\* the current task has just been suspended until a time that was two ticks
\* in the past when it called: its deadline start + delay is Counter - 2
C35_SuspendedUntilPast ==
    /\ id[cur] = ID_DELAYED /\ pending /\ cur \in inwait
    /\ start[cur] = Counter /\ delay[cur] = Mod - 2
    /\ U(start[cur] + delay[cur]) = U(Counter + Mod - 2)
    /\ cur \in Range(waiters["S"]) /\ cur \in Range(delayed)

\* the deadline of the next expiry of a timer
Deadline(tmr) == U(start[tmr] + delay[tmr])

\* C36: a periodic timer does not drift. A timer started at tick s with first
\* delay d and period p has the deadline s + d; a run of the handler that
\* serves k >= 1 expiries of it leaves start at the deadline of the last one
\* served, the old deadline + (k - 1) * p, and the next deadline at the old
\* deadline + k * p, whatever the value of Counter when the handler runs; no
\* other step changes start, delay or period of a running timer. Hence the
\* deadline of the n-th expiry is s + d + (n - 1) * p (mod 2^CntBits).
C36_NoDrift ==
    [][\A tmr \in Timers :
         /\ \A d \in 1 .. Mod - 1, p \in 0 .. Mod - 1 :
               tmr_start(tmr, d, p) =>
                  Deadline(tmr)' = U(Counter + d) /\ period'[tmr] = p
         /\ TimerRuns /\ fired'[tmr] >= 1 =>
               /\ start'[tmr] = U(Deadline(tmr) + (fired'[tmr] - 1) * period[tmr])
               /\ period'[tmr] = period[tmr]
               /\ period[tmr] > 0 =>
                     Deadline(tmr)' = U(Deadline(tmr) + fired'[tmr] * period[tmr])
         /\ id[tmr] = ID_TIMER /\ ~(TimerRuns /\ fired'[tmr] >= 1) =>
               /\ start'[tmr] = start[tmr] /\ delay'[tmr] = delay[tmr]
               /\ period'[tmr] = period[tmr] /\ id'[tmr] = ID_TIMER]_vars

\* the handler ran one tick late for a periodic timer of period 1 and has
\* served two expiries in one run; the next deadline is one period after the
\* second
C36_ServedLate ==
    \E tmr \in Timers :
        /\ fired[tmr] = 2 /\ period[tmr] = 1 /\ id[tmr] = ID_TIMER
        /\ start[tmr] = Counter /\ Deadline(tmr) = U(Counter + 1)

\* C39: a task blocked in a receive or send on a message buffer that is woken
\* by its timeout or by msg_kill returns 0 and nothing has been transferred.
\* While a task is blocked its remaining size is the size it asked for, and a
\* receiver's buffer holds nothing; the step that wakes it with E_TIMEOUT or
\* E_STOPPED leaves its transfer record as it is, a timeout leaves the message
\* buffer as it is and msg_kill leaves it empty, so the sender's prefix and
\* payload are not in it; the call returns 0 when the task resumes.
C39_NoPartialTransfer ==
    [][\A t \in Tasks, b \in Bufs :
         /\ t \in Range(waiters[b]) =>
               /\ tmp[t].req > 0 /\ tmp[t].size = tmp[t].req
               /\ msg[b].count = 0 => tmp[t].data = << >>
               /\ msg[b].count > 0 => Len(tmp[t].data) = tmp[t].req
         /\ /\ t \in Range(waiters[b]) /\ t \notin Range(waiters'[b])
            /\ event'[t] \in {E_TIMEOUT, E_STOPPED}
            => /\ tmp'[t] = tmp[t]
               /\ event'[t] = E_TIMEOUT /\ TimerRuns => msg' = msg
               /\ event'[t] = E_STOPPED => msg'[b].count = 0
         /\ /\ tsk_handler /\ ret'.tsk = t /\ guard[t] = b
            /\ event'[t] \in {E_TIMEOUT, E_STOPPED}
            => /\ ret'.val = 0 /\ ret'.data = tmp[t].data
               /\ tmp'[t] = tmp[t] /\ tmp[t].size = tmp[t].req]_vars

\* a sender that found the buffer full has timed out and returns 0; the
\* message stored before it is all the buffer holds
C39_SenderTimedOut ==
    \E t \in Tasks :
        /\ ret = RetLen(t, 0, <<1>>) /\ event[t] = E_TIMEOUT /\ guard[t] = "B"
        /\ msg["B"].count = SizeofUnsigned + 1 /\ Stored(msg["B"]) = << <<1>> >>

\* C37: a receive (msg_take, msg_waitFor, msg_waitUntil) on a buffer that
\* holds messages, with a buffer size smaller than the length of the oldest
\* one, returns 0, with nothing written to the caller's buffer, and changes
\* nothing: the message buffer, the task lists and the states of the tasks
\* are as before, and the caller is not suspended, whatever the delay.
C37_SmallBufferRefused ==
    [][\A b \in Bufs :
         /\ call'.name \in {"take", "wait"}
         /\ msg[b].count > 0 /\ call'.size < priv_msg_count(K, b)
         => /\ ret'.tsk \in {cur, "caller"} /\ ret'.val = 0 /\ ret'.data = << >>
            /\ msg' = msg /\ tmp' = tmp /\ ~fault'
            /\ id' = id /\ ready' = ready /\ waiters' = waiters /\ delayed' = delayed
            /\ start' = start /\ delay' = delay /\ event' = event /\ guard' = guard
            /\ pending' = pending /\ inwait' = inwait /\ woken' = << >>]_vars

\* a blocking receive with a one-byte buffer has returned 0; the two-byte
\* message is still the oldest in the buffer and the caller runs on
C37_RefusedTwoBytes ==
    /\ call.name = "wait" /\ call.size = 1 /\ ret = RetLen(cur, 0, << >>)
    /\ Stored(msg["B"]) # << >> /\ Len(Stored(msg["B"])[1]) = 2
    /\ id[cur] = ID_READY /\ ~pending /\ cur \notin inwait

\* the waiters of buffer b before task t
Ahead(b, t) == SubSeq(waiters[b], 1, Pos(waiters[b], t) - 1)

\* C38: when msg_give stores a message in the empty buffer and reaches a
\* blocked receiver whose requested size is smaller than its length, the
\* receiver is woken in that step, whatever its deadline, with E_TIMEOUT and
\* nothing transferred; if no blocked receiver has room for the message, it
\* is stored and is all the buffer holds; the receive returns 0 with nothing
\* written when the receiver resumes.
C38_SmallReceiverWoken ==
    [][\A b \in Bufs :
         /\ call'.name = "give" /\ msg[b].count = 0 /\ call'.size > 0 =>
               /\ \A t \in Range(waiters[b]) :
                     /\ tmp[t].size < call'.size
                     /\ \A u \in Range(Ahead(b, t)) : tmp[u].size < call'.size
                     => /\ t \in Range(woken') /\ event'[t] = E_TIMEOUT
                        /\ tmp'[t] = tmp[t] /\ id'[t] = ID_READY
                        /\ t \in Range(ready') /\ t \notin Range(delayed')
                        /\ t \notin Range(waiters'[b])
               /\ (\A t \in Range(waiters[b]) : tmp[t].size < call'.size) =>
                     /\ ~fault' /\ Stored(msg'[b]) = <<call'.data>>
                     /\ ret' = RetLen("caller", call'.size, << >>)
         /\ \A t \in Tasks :
               /\ call'.name = "none" /\ ret'.tsk = t /\ guard[t] = b
               /\ event'[t] = E_TIMEOUT
               => ret' = RetLen(t, 0, << >>) /\ tmp'[t] = tmp[t]]_vars

\* a receiver that asked for one byte with a deadline has been woken with
\* E_TIMEOUT by the arrival of a two-byte message, which is stored
C38_WokenByArrival ==
    \E t \in Tasks :
        /\ call.name = "give" /\ call.size = 2 /\ woken = <<t>>
        /\ event[t] = E_TIMEOUT /\ tmp[t].req = 1 /\ tmp[t].size = 1
        /\ delay[t] = 1 /\ start[t] = Counter
        /\ Stored(msg["B"]) = <<call.data>>

\* C40: when core_tsk_prio changes the effective priority of a task t that
\* waits on an object, t is re-placed in that object's waiters list by its
\* new priority and nothing else moves: guard, start and delay of t, the
\* delayed list and t's place in it, the ready list, the waiters lists of all
\* other objects and the order of the other waiters of the object are as the
\* caller's own wait on the mutex left them, and no other task's priority
\* changes.
C40_PrioFrame ==
    [][\A t \in Tasks :
         id[t] = ID_DELAYED /\ prio'[t] # prio[t] =>
            LET g  == guard[t]
                m  == guard'[cur]
                s1 == core_tsk_waitFor(K, m, INFINITE)
            IN  /\ m \in Mutexes /\ owner[m] = t /\ g # m
                /\ guard'[t] = g /\ start'[t] = start[t] /\ delay'[t] = delay[t]
                /\ id'[t] = ID_DELAYED
                /\ delayed' = s1.delayed /\ Pos(delayed', t) = Pos(delayed, t)
                /\ ready' = s1.ready
                /\ \A o \in Objs \ {g} : waiters'[o] = s1.waiters[o]
                /\ t \in Range(waiters'[g])
                /\ Without(waiters'[g], t) = Without(waiters[g], t)
                /\ \A u \in Range(waiters'[g]) \ {t} :
                      IF prio[u] >= prio'[t] THEN Pos(waiters'[g], u) < Pos(waiters'[g], t)
                                             ELSE Pos(waiters'[g], t) < Pos(waiters'[g], u)
                /\ guard' = s1.guard /\ start' = s1.start /\ delay' = s1.delay
                /\ id' = s1.id
                /\ \A u \in Tasks \ {t} : prio'[u] = prio[u]]_vars

\* MAIN, waiting on S behind T1, has been raised above it by a task that
\* blocked on a mutex MAIN owns, and is now the first waiter of S
C40_MovedAhead ==
    \E m \in Mutexes :
        /\ id[MAIN] = ID_DELAYED /\ guard[MAIN] = "S" /\ owner[m] = MAIN
        /\ waiters["S"] = <<MAIN, "T1">> /\ prio[MAIN] > prio["T1"]
        /\ waiters[m] = <<cur>> /\ pending /\ delayed = <<"T1", MAIN, cur>>

(* ------------------------------------------------------------------------ *)
(* Well-formedness                                                          *)
(* ------------------------------------------------------------------------ *)

TypeOK ==
    /\ id \in [Tasks \cup Timers \cup {IDLE} -> {ID_STOPPED, ID_READY, ID_DELAYED, ID_TIMER, ID_IDLE}]
    /\ guard \in [Tasks -> Objs \cup {NULL}]
    /\ prio \in [Tasks \cup {IDLE} -> 0 .. 3]
    /\ cur \in Tasks \cup {IDLE}
    /\ Counter \in 0 .. Mod - 1
    /\ fault \in BOOLEAN
    /\ \A b \in Bufs : /\ msg[b].limit \in {MaxLimit, RingLimit}
                       /\ msg[b].data \in [0 .. msg[b].limit - 1 -> 0 .. 255]
    /\ \A t \in Tasks : /\ tmp[t].size \in 0 .. Max({MaxSize, RingSize})
                        /\ tmp[t].req \in 0 .. Max({MaxSize, RingSize})
    /\ \A t \in Timers : fired[t] \in Nat
    /\ \A t \in Tasks : (id[t] = ID_READY) = (t \in Range(ready))
    /\ \A t \in Tasks : (id[t] = ID_DELAYED) = (t \in Range(delayed))

====
